---- MODULE Spec2Model ----
(***************************************************************************)
(* A model of the one-billion-records-challenge core: the streaming xxHash *)
(* (src/src/xxhash.rs), the chained HashTable keyed by it                  *)
(* (src/src/hash_table.rs) and the line splitters (src/src/pipeline.rs).   *)
(*                                                                         *)
(* Machine words are kept at their width: a u32 is a sequence of 4 bytes   *)
(* and a u64 a sequence of 8 bytes, least significant byte first, and all  *)
(* arithmetic on them wraps as the wrapping_* calls of the source do.      *)
(***************************************************************************)
EXTENDS Integers, Sequences, FiniteSets, TLC

(***************************************************************************)
(* Fixed-width words                                                       *)
(***************************************************************************)

\* The sequence f with every element evaluated: concatenation yields an
\* explicit tuple, so a chain of word operations is evaluated once per step.
Bytes(f) == f \o <<>>

\* A word written most significant byte first, as a hexadecimal literal reads.
W32(b3, b2, b1, b0) == <<b0, b1, b2, b3>>
W64(b7, b6, b5, b4, b3, b2, b1, b0) == <<b0, b1, b2, b3, b4, b5, b6, b7>>

\* The n-byte word of a small natural number (`x as u32`, `x as u64`).
RECURSIVE WordOf(_, _)
WordOf(x, n) == IF n = 0 THEN <<>> ELSE <<x % 256>> \o WordOf(x \div 256, n - 1)

\* u32::from_le_bytes / u64::from_le_bytes of the bytes s[from .. from+n-1].
FromLeBytes(s, from, n) == Bytes([i \in 1..n |-> s[from + i - 1]])

\* `lane as u64` of a u32.
ZeroExtend(w, n) == Bytes([i \in 1..n |-> IF i <= Len(w) THEN w[i] ELSE 0])

\* `x as u32` of a u64.
Truncate(w, n) == Bytes([i \in 1..n |-> w[i]])

\* Every operation first checks the width of its operands; a word that has
\* the wrong width has no value.

\* wrapping_add
WrappingAdd(a, b) ==
    CASE Len(a) = Len(b) ->
        LET n == Len(a)
            carry[k \in 0..n] ==
                IF k = 0 THEN 0 ELSE (a[k] + b[k] + carry[k - 1]) \div 256
        IN  Bytes([k \in 1..n |-> (a[k] + b[k] + carry[k - 1]) % 256])

\* wrapping_sub: a + (2^w - b) = a + ~b + 1
WrappingSub(a, b) ==
    CASE Len(a) = Len(b) ->
        LET n == Len(a)
            carry[k \in 0..n] ==
                IF k = 0 THEN 1 ELSE (a[k] + (255 - b[k]) + carry[k - 1]) \div 256
        IN  Bytes([k \in 1..n |-> (a[k] + (255 - b[k]) + carry[k - 1]) % 256])

RECURSIVE ColumnSum(_, _, _, _)
ColumnSum(a, b, k, i) ==
    IF i = 0 THEN 0 ELSE a[i] * b[k + 1 - i] + ColumnSum(a, b, k, i - 1)

\* wrapping_mul: the low n bytes of the schoolbook product
WrappingMul(a, b) ==
    CASE Len(a) = Len(b) ->
        LET n == Len(a)
            col == Bytes([k \in 1..n |-> ColumnSum(a, b, k, k)])
            carry[k \in 0..n] ==
                IF k = 0 THEN 0 ELSE (col[k] + carry[k - 1]) \div 256
        IN  Bytes([k \in 1..n |-> (col[k] + carry[k - 1]) % 256])

Pow2(s) == CASE s = 0 -> 1 [] s = 1 -> 2 [] s = 2 -> 4 [] s = 3 -> 8
             [] s = 4 -> 16 [] s = 5 -> 32 [] s = 6 -> 64 [] s = 7 -> 128
             [] s = 8 -> 256

\* rotate_left(r), 0 < r < 8n
RotateLeft(a, r) ==
    CASE r < 8 * Len(a) ->
        LET n == Len(a)
            q == r \div 8
            s == r % 8
            at(i) == a[((i - 1 + 2 * n) % n) + 1]
        IN  Bytes([k \in 1..n |->
                ((at(k - q) * Pow2(s)) % 256) + (at(k - q - 1) \div Pow2(8 - s))])

\* x >> r, 0 < r < 8n
ShiftRight(a, r) ==
    CASE r < 8 * Len(a) ->
        LET n == Len(a)
            q == r \div 8
            s == r % 8
            at(i) == IF i <= n THEN a[i] ELSE 0
        IN  Bytes([k \in 1..n |->
                (at(k + q) \div Pow2(s)) + ((at(k + q + 1) * Pow2(8 - s)) % 256)])

BitXor4 ==
    [x \in 0..15 |-> [y \in 0..15 |->
        ((x + y) % 2)
        + 2 * (((x \div 2) + (y \div 2)) % 2)
        + 4 * (((x \div 4) + (y \div 4)) % 2)
        + 8 * (((x \div 8) + (y \div 8)) % 2)]]

\* a ^ b
Xor(a, b) ==
    CASE Len(a) = Len(b) ->
        Bytes([k \in 1..Len(a) |->
            16 * BitXor4[a[k] \div 16][b[k] \div 16] + BitXor4[a[k] % 16][b[k] % 16]])

\* (x as usize) % m for a small m > 0, by Horner's rule from the top byte.
RECURSIVE ModSmall(_, _, _)
ModSmall(w, k, m) ==
    IF k = 0 THEN 0 ELSE (ModSmall(w, k - 1, m) * 256 + w[Len(w) + 1 - k]) % m

(***************************************************************************)
(* xxhash.rs: constants                                                    *)
(***************************************************************************)
PRIME32_1 == W32(158, 55, 121, 177)      \* 0x9E3779B1
PRIME32_2 == W32(133, 235, 202, 119)     \* 0x85EBCA77
PRIME32_3 == W32(194, 178, 174, 61)      \* 0xC2B2AE3D
PRIME32_4 == W32(39, 212, 235, 47)       \* 0x27D4EB2F
PRIME32_5 == W32(22, 86, 103, 177)       \* 0x165667B1

PRIME64_1 == W64(158, 55, 121, 177, 133, 235, 202, 135)  \* 0x9E3779B185EBCA87
PRIME64_2 == W64(194, 178, 174, 61, 39, 212, 235, 79)    \* 0xC2B2AE3D27D4EB4F
PRIME64_3 == W64(22, 86, 103, 177, 158, 55, 121, 249)    \* 0x165667B19E3779F9
PRIME64_4 == W64(133, 235, 202, 119, 194, 178, 174, 99)  \* 0x85EBCA77C2B2AE63
PRIME64_5 == W64(39, 212, 235, 47, 22, 86, 103, 197)     \* 0x27D4EB2F165667C5

(***************************************************************************)
(* xxhash.rs: XxHash32                                                     *)
(*                                                                         *)
(* A hasher is a record of the struct's fields.  The guards `IsU32(x)` at  *)
(* the head of a step state the width of the running value; they also fix  *)
(* the order of evaluation, one step of the source at a time.              *)
(***************************************************************************)
IsU32(w) == Len(w) = 4
IsU64(w) == Len(w) = 8

ZeroBuffer(n) == Bytes([i \in 1..n |-> 0])

\* buffer[at .. at+len(input)-1].copy_from_slice(input), at counted from 0
CopyFromSlice(buffer, at, input) ==
    Bytes([i \in 1..Len(buffer) |->
        IF i > at /\ i <= at + Len(input) THEN input[i - at] ELSE buffer[i]])

XxHash32New(seed) ==
    [seed |-> seed,
     acc1 |-> WrappingAdd(WrappingAdd(seed, PRIME32_1), PRIME32_2),
     acc2 |-> WrappingAdd(seed, PRIME32_2),
     acc3 |-> seed,
     acc4 |-> WrappingSub(seed, PRIME32_1),
     buffer |-> ZeroBuffer(16),
     buffer_len |-> 0,
     total_len |-> 0]

\* acc.wrapping_add(lane.wrapping_mul(PRIME32_2)).rotate_left(13).wrapping_mul(PRIME32_1)
XxHash32Round(acc, lane) ==
    WrappingMul(RotateLeft(WrappingAdd(acc, WrappingMul(lane, PRIME32_2)), 13),
                PRIME32_1)

\* process_stripe on the 16 bytes stripe[1..16]
XxHash32ProcessStripe(h, stripe) ==
    [h EXCEPT !.acc1 = XxHash32Round(@, FromLeBytes(stripe, 1, 4)),
              !.acc2 = XxHash32Round(@, FromLeBytes(stripe, 5, 4)),
              !.acc3 = XxHash32Round(@, FromLeBytes(stripe, 9, 4)),
              !.acc4 = XxHash32Round(@, FromLeBytes(stripe, 13, 4))]

\* the `while input.len() >= 16` loop of write and the final copy of the tail
RECURSIVE XxHash32WriteTail(_, _)
XxHash32WriteTail(h, input) ==
    CASE IsU32(h.acc1) /\ Len(input) >= 0 ->
        IF Len(input) >= 16
        THEN XxHash32WriteTail(XxHash32ProcessStripe(h, SubSeq(input, 1, 16)),
                               SubSeq(input, 17, Len(input)))
        ELSE IF input # <<>>
             THEN [h EXCEPT !.buffer = CopyFromSlice(@, 0, input),
                            !.buffer_len = Len(input)]
             ELSE h

\* XxHash32Write leaving buffer_len as it was after the buffer was filled
\* and processed
XxHash32WriteKeepingBufferLen(h, input) ==
    LET h0 == [h EXCEPT !.total_len = @ + Len(input)]
        fill == 16 - h0.buffer_len
    IN  IF h0.buffer_len > 0
        THEN IF Len(input) >= fill
             THEN LET buf == CopyFromSlice(h0.buffer, h0.buffer_len,
                                           SubSeq(input, 1, fill))
                      h1 == XxHash32ProcessStripe([h0 EXCEPT !.buffer = buf], buf)
                  IN  XxHash32WriteTail(h1, SubSeq(input, fill + 1, Len(input)))
             ELSE [h0 EXCEPT !.buffer = CopyFromSlice(@, h0.buffer_len, input),
                             !.buffer_len = @ + Len(input)]
        ELSE XxHash32WriteTail(h0, input)

XxHash32Write(h, input) ==
    LET h0 == [h EXCEPT !.total_len = @ + Len(input)]
        fill == 16 - h0.buffer_len
    IN  IF h0.buffer_len > 0
        THEN IF Len(input) >= fill
             THEN LET buf == CopyFromSlice(h0.buffer, h0.buffer_len,
                                           SubSeq(input, 1, fill))
                      h1 == XxHash32ProcessStripe([h0 EXCEPT !.buffer = buf], buf)
                  IN  XxHash32WriteTail([h1 EXCEPT !.buffer_len = 0],
                                        SubSeq(input, fill + 1, Len(input)))
             ELSE [h0 EXCEPT !.buffer = CopyFromSlice(@, h0.buffer_len, input),
                             !.buffer_len = @ + Len(input)]
        ELSE XxHash32WriteTail(h0, input)

\* the `while remaining.len() >= 4` loop followed by the per-byte loop
RECURSIVE XxHash32Remaining(_, _)
XxHash32Remaining(hash, remaining) ==
    CASE IsU32(hash) /\ Len(remaining) >= 0 ->
        IF Len(remaining) >= 4
        THEN LET lane == FromLeBytes(remaining, 1, 4)
                 h1 == WrappingAdd(hash, WrappingMul(lane, PRIME32_3))
                 h2 == WrappingMul(RotateLeft(h1, 17), PRIME32_4)
             IN  XxHash32Remaining(h2, SubSeq(remaining, 5, Len(remaining)))
        ELSE IF remaining # <<>>
             THEN LET h1 == WrappingAdd(hash,
                                WrappingMul(WordOf(remaining[1], 4), PRIME32_5))
                      h2 == WrappingMul(RotateLeft(h1, 11), PRIME32_1)
                  IN  XxHash32Remaining(h2, Tail(remaining))
             ELSE hash

\* XxHash32Avalanche with the first shift off by one (16 for 15)
XxHash32AvalancheShift16(hash) ==
    CASE IsU32(hash) ->
        LET h1 == Xor(hash, ShiftRight(hash, 16))
            h2 == WrappingMul(h1, PRIME32_2)
            h3 == Xor(h2, ShiftRight(h2, 13))
            h4 == WrappingMul(h3, PRIME32_3)
        IN  Xor(h4, ShiftRight(h4, 16))

\* hash ^= hash >> 15; *= PRIME32_2; ^= hash >> 13; *= PRIME32_3; ^= hash >> 16
XxHash32Avalanche(hash) ==
    CASE IsU32(hash) ->
        LET h1 == Xor(hash, ShiftRight(hash, 15))
            h2 == WrappingMul(h1, PRIME32_2)
            h3 == Xor(h2, ShiftRight(h2, 13))
            h4 == WrappingMul(h3, PRIME32_3)
        IN  Xor(h4, ShiftRight(h4, 16))

\* the accumulator branch of finish (total_len >= 16)
XxHash32Converge(h) ==
    WrappingAdd(WrappingAdd(WrappingAdd(
        RotateLeft(h.acc1, 1), RotateLeft(h.acc2, 7)),
        RotateLeft(h.acc3, 12)), RotateLeft(h.acc4, 18))

XxHash32Finish(h) ==
    LET start == IF h.total_len >= 16
                 THEN XxHash32Converge(h)
                 ELSE WrappingAdd(h.seed, PRIME32_5)
    IN  CASE IsU32(start) ->
            LET withLen == WrappingAdd(start, Truncate(WordOf(h.total_len, 8), 4))
                folded == XxHash32Remaining(withLen, SubSeq(h.buffer, 1, h.buffer_len))
            IN  CASE IsU32(folded) -> XxHash32Avalanche(folded)

XxHash32Oneshot(input, seed) ==
    LET hasher == XxHash32Write(XxHash32New(seed), input)
    IN  CASE hasher.total_len = Len(input) -> XxHash32Finish(hasher)

(***************************************************************************)
(* xxhash.rs: XxHash64                                                     *)
(***************************************************************************)
XxHash64New(seed) ==
    [seed |-> seed,
     acc1 |-> WrappingAdd(WrappingAdd(seed, PRIME64_1), PRIME64_2),
     acc2 |-> WrappingAdd(seed, PRIME64_2),
     acc3 |-> seed,
     acc4 |-> WrappingSub(seed, PRIME64_1),
     buffer |-> ZeroBuffer(32),
     buffer_len |-> 0,
     total_len |-> 0]

\* acc.wrapping_add(lane.wrapping_mul(PRIME64_2)).rotate_left(31).wrapping_mul(PRIME64_1)
XxHash64Round(acc, lane) ==
    WrappingMul(RotateLeft(WrappingAdd(acc, WrappingMul(lane, PRIME64_2)), 31),
                PRIME64_1)

XxHash64ProcessStripe(h, stripe) ==
    [h EXCEPT !.acc1 = XxHash64Round(@, FromLeBytes(stripe, 1, 8)),
              !.acc2 = XxHash64Round(@, FromLeBytes(stripe, 9, 8)),
              !.acc3 = XxHash64Round(@, FromLeBytes(stripe, 17, 8)),
              !.acc4 = XxHash64Round(@, FromLeBytes(stripe, 25, 8))]

RECURSIVE XxHash64WriteTail(_, _)
XxHash64WriteTail(h, input) ==
    CASE IsU64(h.acc1) /\ Len(input) >= 0 ->
        IF Len(input) >= 32
        THEN XxHash64WriteTail(XxHash64ProcessStripe(h, SubSeq(input, 1, 32)),
                               SubSeq(input, 33, Len(input)))
        ELSE IF input # <<>>
             THEN [h EXCEPT !.buffer = CopyFromSlice(@, 0, input),
                            !.buffer_len = Len(input)]
             ELSE h

\* XxHash64Write copying a short input to the start of the buffer instead
\* of after the bytes already buffered
XxHash64WriteAtBufferStart(h, input) ==
    LET h0 == [h EXCEPT !.total_len = @ + Len(input)]
        fill == 32 - h0.buffer_len
    IN  IF h0.buffer_len > 0
        THEN IF Len(input) >= fill
             THEN LET buf == CopyFromSlice(h0.buffer, h0.buffer_len,
                                           SubSeq(input, 1, fill))
                      h1 == XxHash64ProcessStripe([h0 EXCEPT !.buffer = buf], buf)
                  IN  XxHash64WriteTail([h1 EXCEPT !.buffer_len = 0],
                                        SubSeq(input, fill + 1, Len(input)))
             ELSE [h0 EXCEPT !.buffer = CopyFromSlice(@, 0, input),
                             !.buffer_len = @ + Len(input)]
        ELSE XxHash64WriteTail(h0, input)

XxHash64Write(h, input) ==
    LET h0 == [h EXCEPT !.total_len = @ + Len(input)]
        fill == 32 - h0.buffer_len
    IN  IF h0.buffer_len > 0
        THEN IF Len(input) >= fill
             THEN LET buf == CopyFromSlice(h0.buffer, h0.buffer_len,
                                           SubSeq(input, 1, fill))
                      h1 == XxHash64ProcessStripe([h0 EXCEPT !.buffer = buf], buf)
                  IN  XxHash64WriteTail([h1 EXCEPT !.buffer_len = 0],
                                        SubSeq(input, fill + 1, Len(input)))
             ELSE [h0 EXCEPT !.buffer = CopyFromSlice(@, h0.buffer_len, input),
                             !.buffer_len = @ + Len(input)]
        ELSE XxHash64WriteTail(h0, input)

XxHash64MergeAccumulator(acc, acc_n) ==
    CASE IsU64(acc) ->
        LET a1 == Xor(acc, WrappingMul(RotateLeft(WrappingMul(acc_n, PRIME64_2), 31),
                                       PRIME64_1))
        IN  WrappingAdd(WrappingMul(a1, PRIME64_1), PRIME64_4)

\* the 8-byte, 4-byte and 1-byte loops over the buffered remainder; width is
\* the loop the scan is in
RECURSIVE XxHash64Remaining(_, _, _)
XxHash64Remaining(hash, remaining, width) ==
    CASE IsU64(hash) /\ Len(remaining) >= 0 ->
        IF width = 8 /\ Len(remaining) >= 8
        THEN LET lane == FromLeBytes(remaining, 1, 8)
                 h1 == Xor(hash, WrappingMul(RotateLeft(WrappingMul(lane, PRIME64_2), 31),
                                             PRIME64_1))
                 h2 == WrappingAdd(WrappingMul(RotateLeft(h1, 27), PRIME64_1), PRIME64_4)
             IN  XxHash64Remaining(h2, SubSeq(remaining, 9, Len(remaining)), 8)
        ELSE IF width = 8 THEN XxHash64Remaining(hash, remaining, 4)
        ELSE IF width = 4 /\ Len(remaining) >= 4
        THEN LET lane == ZeroExtend(FromLeBytes(remaining, 1, 4), 8)
                 h1 == Xor(hash, WrappingMul(lane, PRIME64_1))
                 h2 == WrappingAdd(WrappingMul(RotateLeft(h1, 23), PRIME64_2), PRIME64_3)
             IN  XxHash64Remaining(h2, SubSeq(remaining, 5, Len(remaining)), 4)
        ELSE IF width = 4 THEN XxHash64Remaining(hash, remaining, 1)
        ELSE IF remaining # <<>>
        THEN LET h1 == Xor(hash, WrappingMul(WordOf(remaining[1], 8), PRIME64_5))
                 h2 == WrappingMul(RotateLeft(h1, 11), PRIME64_1)
             IN  XxHash64Remaining(h2, Tail(remaining), 1)
        ELSE hash

\* XxHash64Avalanche with PRIME64_2 and PRIME64_3 exchanged
XxHash64AvalanchePrimesSwapped(hash) ==
    CASE IsU64(hash) ->
        LET h1 == Xor(hash, ShiftRight(hash, 33))
            h2 == WrappingMul(h1, PRIME64_3)
            h3 == Xor(h2, ShiftRight(h2, 29))
            h4 == WrappingMul(h3, PRIME64_2)
        IN  Xor(h4, ShiftRight(h4, 32))

\* hash ^= hash >> 33; *= PRIME64_2; ^= hash >> 29; *= PRIME64_3; ^= hash >> 32
XxHash64Avalanche(hash) ==
    CASE IsU64(hash) ->
        LET h1 == Xor(hash, ShiftRight(hash, 33))
            h2 == WrappingMul(h1, PRIME64_2)
            h3 == Xor(h2, ShiftRight(h2, 29))
            h4 == WrappingMul(h3, PRIME64_3)
        IN  Xor(h4, ShiftRight(h4, 32))

\* the accumulator branch of finish (total_len >= 32)
XxHash64Converge(h) ==
    LET h0 == WrappingAdd(WrappingAdd(WrappingAdd(
                  RotateLeft(h.acc1, 1), RotateLeft(h.acc2, 7)),
                  RotateLeft(h.acc3, 12)), RotateLeft(h.acc4, 18))
    IN  XxHash64MergeAccumulator(
            XxHash64MergeAccumulator(
                XxHash64MergeAccumulator(
                    XxHash64MergeAccumulator(h0, h.acc1), h.acc2), h.acc3), h.acc4)

XxHash64Finish(h) ==
    LET start == IF h.total_len >= 32
                 THEN XxHash64Converge(h)
                 ELSE WrappingAdd(h.seed, PRIME64_5)
    IN  CASE IsU64(start) ->
            LET withLen == WrappingAdd(start, WordOf(h.total_len, 8))
                folded == XxHash64Remaining(withLen, SubSeq(h.buffer, 1, h.buffer_len), 8)
            IN  CASE IsU64(folded) -> XxHash64Avalanche(folded)

XxHash64Oneshot(input, seed) ==
    LET hasher == XxHash64Write(XxHash64New(seed), input)
    IN  CASE hasher.total_len = Len(input) -> XxHash64Finish(hasher)

\* finish leaving the lengths at zero, as a new hasher has them
HasherResetByFinish(h) == [h EXCEPT !.buffer_len = 0, !.total_len = 0]

\* finish takes &self: the hasher a finish call leaves behind
HasherAfterFinish(h) == h

(***************************************************************************)
(* Bounds of the model                                                     *)
(***************************************************************************)
NumKeys == 4          \* distinct keys offered to the table
MaxWrites == 3        \* write calls on one hasher
MaxFinishes == 2      \* finish calls on one hasher
MaxBufLen == 5        \* bytes in a buffer given to the line splitters
MaxLines == 2           \* lines in an input file
MaxRecords == 3         \* records given to an aggregator

(***************************************************************************)
(* hash_table.rs                                                           *)
(*                                                                         *)
(* A table is a record of the struct's fields; buckets is a sequence of    *)
(* chains, chain i of the source at position i + 1, and a chain is a       *)
(* sequence of <<key, value>> pairs.  Keys are strings (byte sequences),   *)
(* as in every HashTable<String, _> of the program.                        *)
(***************************************************************************)
INITIAL_CAPACITY == 16
\* 0.75 as the fraction 3/4
LOAD_FACTOR_THRESHOLD == [num |-> 3, den |-> 4]

None == [some |-> FALSE, val |-> 0]
Some(v) == [some |-> TRUE, val |-> v]

Keys == {<<65 + i>> : i \in 0..(NumKeys - 1)}
\* the table never looks into a value: two of them tell the value a key had
\* from the one it gets
Values == {1, 2}
\* with_capacity(n) for small n, and new() = with_capacity(INITIAL_CAPACITY)
InitialCapacities == {0, 1, 2, INITIAL_CAPACITY}

\* <String as Hash>::hash: the bytes of the string, then the byte 0xff, and
\* Hasher::finish of the XxHash64 seeded with 0
HashOfKey(key) ==
    LET hasher == XxHash64Write(XxHash64Write(XxHash64New(WordOf(0, 8)), key), <<255>>)
    IN  CASE hasher.total_len = Len(key) + 1 -> XxHash64Finish(hasher)

\* key.hash(&mut hasher); hasher.finish() is a pure function of the key:
\* the table machine computes it once for every key and keeps it here
VARIABLE hashes
KeyHashes == [key \in Keys |-> HashOfKey(key)]

\* HashTable::with_capacity
HashTableWithCapacity(n) ==
    [buckets |-> Bytes([i \in 1..n |-> <<>>]), size |-> 0, capacity |-> n]

\* HashTable::hash: the remainder panics when capacity is 0
HashTableHash(t, key) ==
    IF t.capacity = 0
    THEN [panic |-> TRUE, index |-> 0]
    ELSE [panic |-> FALSE, index |-> ModSmall(hashes[key], 8, t.capacity)]

\* the comparison taken as >= : a table that is exactly three quarters full
\* counts as above the threshold
LoadFactorAtThreshold(t) ==
    /\ t.capacity # 0
    /\ t.size * LOAD_FACTOR_THRESHOLD.den >= LOAD_FACTOR_THRESHOLD.num * t.capacity

\* HashTable::load_factor() > LOAD_FACTOR_THRESHOLD.  size / capacity is
\* computed in f64: exact for these sizes, and 0.0 / 0.0 is NaN, which
\* compares false.
LoadFactorAboveThreshold(t) ==
    /\ t.capacity # 0
    /\ t.size * LOAD_FACTOR_THRESHOLD.den > LOAD_FACTOR_THRESHOLD.num * t.capacity

\* position of key in a chain (1-based), 0 when it is not there
RECURSIVE ChainPosition(_, _, _)
ChainPosition(chain, key, i) ==
    IF i > Len(chain) THEN 0
    ELSE IF chain[i][1] = key THEN i
    ELSE ChainPosition(chain, key, i + 1)

\* bucket.remove(i)
ChainRemove(chain, i) == SubSeq(chain, 1, i - 1) \o SubSeq(chain, i + 1, Len(chain))

\* buckets.iter().flat_map(|bucket| bucket.iter()): bucket order, then chain order
RECURSIVE Flatten(_, _)
Flatten(bucketSeq, i) ==
    IF i > Len(bucketSeq) THEN <<>> ELSE bucketSeq[i] \o Flatten(bucketSeq, i + 1)

\* insert that pushes the pair without looking for the key in the chain
HashTablePutAlwaysPushing(t, key, value) ==
    LET h == HashTableHash(t, key)
    IN  IF h.panic THEN [table |-> t, ret |-> None, panic |-> TRUE]
        ELSE [table |-> [t EXCEPT !.buckets[h.index + 1] = Append(@, <<key, value>>),
                                  !.size = @ + 1],
              ret |-> None, panic |-> FALSE]

\* lines 67-78 of insert: the scan of the chain, the replace or the push
HashTablePut(t, key, value) ==
    LET h == HashTableHash(t, key)
        chain == t.buckets[h.index + 1]
        pos == ChainPosition(chain, key, 1)
    IN  IF h.panic THEN [table |-> t, ret |-> None, panic |-> TRUE]
        ELSE IF pos # 0
        THEN [table |-> [t EXCEPT !.buckets[h.index + 1][pos] = <<key, value>>],
              ret |-> Some(chain[pos][2]), panic |-> FALSE]
        ELSE [table |-> [t EXCEPT !.buckets[h.index + 1] = Append(@, <<key, value>>),
                                  !.size = @ + 1],
              ret |-> None, panic |-> FALSE]

RECURSIVE HashTableInsert(_, _, _)
RECURSIVE HashTableRehash(_, _)

\* the `for bucket in old_buckets { for (key, value) in bucket { self.insert } }`
\* loops of resize, over the old entries in bucket-then-chain order
HashTableRehash(t, entries) ==
    CASE t.size >= 0 ->
        IF entries = <<>> THEN [table |-> t, panic |-> FALSE]
        ELSE LET r == HashTableInsert(t, entries[1][1], entries[1][2])
             IN  IF r.panic THEN [table |-> r.table, panic |-> TRUE]
                 ELSE HashTableRehash(r.table, Tail(entries))

\* resize losing the last entry of the old table
HashTableResizeDroppingLast(t) ==
    LET old == Flatten(t.buckets, 1)
    IN  HashTableRehash(HashTableWithCapacity(t.capacity * 2),
                        SubSeq(old, 1, Len(old) - 1))

\* resize keeping every chain at its index and adding empty chains after them
HashTableResizeKeepingChains(t) ==
    [table |-> [buckets |-> t.buckets \o HashTableWithCapacity(t.capacity).buckets,
                size |-> t.size, capacity |-> t.capacity * 2],
     panic |-> FALSE]

\* HashTable::resize
HashTableResize(t) ==
    HashTableRehash(HashTableWithCapacity(t.capacity * 2), Flatten(t.buckets, 1))

\* HashTable::insert
HashTableInsert(t, key, value) ==
    LET grown == IF LoadFactorAboveThreshold(t)
                 THEN HashTableResize(t)
                 ELSE [table |-> t, panic |-> FALSE]
    IN  IF grown.panic THEN [table |-> grown.table, ret |-> None, panic |-> TRUE]
        ELSE HashTablePut(grown.table, key, value)

\* get answering with the first pair of the chain, whatever its key
HashTableGetFirstInChain(t, key) ==
    LET h == HashTableHash(t, key)
        chain == t.buckets[h.index + 1]
    IN  IF h.panic THEN [ret |-> None, panic |-> TRUE]
        ELSE IF chain # <<>> THEN [ret |-> Some(chain[1][2]), panic |-> FALSE]
        ELSE [ret |-> None, panic |-> FALSE]

\* HashTable::get
HashTableGet(t, key) ==
    LET h == HashTableHash(t, key)
        chain == t.buckets[h.index + 1]
        pos == ChainPosition(chain, key, 1)
    IN  IF h.panic THEN [ret |-> None, panic |-> TRUE]
        ELSE IF pos # 0 THEN [ret |-> Some(chain[pos][2]), panic |-> FALSE]
        ELSE [ret |-> None, panic |-> FALSE]

\* remove that takes the pair out and leaves size as it was
HashTableRemoveKeepingSize(t, key) ==
    LET h == HashTableHash(t, key)
        chain == t.buckets[h.index + 1]
        pos == ChainPosition(chain, key, 1)
    IN  IF h.panic THEN [table |-> t, ret |-> None, panic |-> TRUE]
        ELSE IF pos # 0
        THEN [table |-> [t EXCEPT !.buckets[h.index + 1] = ChainRemove(@, pos)],
              ret |-> Some(chain[pos][2]), panic |-> FALSE]
        ELSE [table |-> t, ret |-> None, panic |-> FALSE]

\* HashTable::remove
HashTableRemove(t, key) ==
    LET h == HashTableHash(t, key)
        chain == t.buckets[h.index + 1]
        pos == ChainPosition(chain, key, 1)
    IN  IF h.panic THEN [table |-> t, ret |-> None, panic |-> TRUE]
        ELSE IF pos # 0
        THEN [table |-> [t EXCEPT !.buckets[h.index + 1] = ChainRemove(@, pos),
                                  !.size = @ - 1],
              ret |-> Some(chain[pos][2]), panic |-> FALSE]
        ELSE [table |-> t, ret |-> None, panic |-> FALSE]

\* is_empty answering false, whatever the table holds
HashTableNeverEmpty(t) == FALSE

\* HashTable::len, HashTable::is_empty
HashTableLen(t) == t.size
HashTableIsEmpty(t) == t.size = 0

(***************************************************************************)
(* pipeline.rs: stage 2, line splitting                                    *)
(*                                                                         *)
(* A buffer is a sequence of bytes; offset i of the source is position     *)
(* i + 1.  A returned slice &data[start..end] is the span [start, end].    *)
(***************************************************************************)
NEWLINE == 10         \* b'\n'
Span(start, end) == [start |-> start, end |-> end]

\* the `for (i, &byte) in data.iter().enumerate()` loop of
\* split_into_lines_basic, from offset i with the lines and start so far
RECURSIVE SplitBasicLoop(_, _, _, _)
SplitBasicLoop(bytes, i, lines, start) ==
    CASE Len(lines) >= 0 /\ start >= 0 ->
        IF i >= Len(bytes) THEN [lines |-> lines, start |-> start]
        ELSE IF bytes[i + 1] = NEWLINE
             THEN SplitBasicLoop(bytes, i + 1,
                      IF start < i THEN Append(lines, Span(start, i)) ELSE lines,
                      i + 1)
             ELSE SplitBasicLoop(bytes, i + 1, lines, start)

\* split_into_lines_basic pushing data[start..] without looking at start
split_into_lines_basic_unchecked_tail(bytes) ==
    LET scan == SplitBasicLoop(bytes, 0, <<>>, 0)
    IN  Append(scan.lines, Span(scan.start, Len(bytes)))

\* split_into_lines_basic
split_into_lines_basic(bytes) ==
    LET scan == SplitBasicLoop(bytes, 0, <<>>, 0)
    IN  IF scan.start < Len(bytes)
        THEN Append(scan.lines, Span(scan.start, Len(bytes)))
        ELSE scan.lines

\* memchr_iter(needle, haystack): the offsets of needle, in increasing order
RECURSIVE memchr_iter(_, _, _)
memchr_iter(needle, haystack, from) ==
    LET hits == {i \in from..(Len(haystack) - 1) : haystack[i + 1] = needle}
    IN  IF hits = {} THEN <<>>
        ELSE LET first == CHOOSE i \in hits : \A j \in hits : i <= j
             IN  <<first>> \o memchr_iter(needle, haystack, first + 1)

\* the `for newline_pos in memchr_iter(b'\n', data)` loop of split_into_lines_simd
RECURSIVE SplitSimdLoop(_, _, _)
SplitSimdLoop(positions, lines, start) ==
    CASE Len(lines) >= 0 /\ start >= 0 ->
        IF positions = <<>> THEN [lines |-> lines, start |-> start]
        ELSE SplitSimdLoop(Tail(positions),
                 IF start < positions[1]
                 THEN Append(lines, Span(start, positions[1])) ELSE lines,
                 positions[1] + 1)

\* split_into_lines_simd without the last line that has no newline
split_into_lines_simd_without_tail(bytes) ==
    SplitSimdLoop(memchr_iter(NEWLINE, bytes, 0), <<>>, 0).lines

\* split_into_lines_simd
split_into_lines_simd(bytes) ==
    LET scan == SplitSimdLoop(memchr_iter(NEWLINE, bytes, 0), <<>>, 0)
    IN  IF scan.start < Len(bytes)
        THEN Append(scan.lines, Span(scan.start, Len(bytes)))
        ELSE scan.lines

(***************************************************************************)
(* Text and numbers of weather.rs and pipeline.rs                          *)
(*                                                                         *)
(* A str or a byte slice is the sequence of its bytes; the inputs of the   *)
(* model are ASCII.  A Result is [ok |-> TRUE, val |-> v] or               *)
(* [ok |-> FALSE, err |-> e].                                              *)
(***************************************************************************)
SEMICOLON == 59       \* ';'
Ok(v) == [ok |-> TRUE, val |-> v]
Err(e) == [ok |-> FALSE, err |-> e]

\* char::is_whitespace on ASCII: \t \n \x0b \x0c \r and the space
IsWhitespace(b) == b \in {9, 10, 11, 12, 13, 32}

\* str::trim
RECURSIVE TrimStart(_)
TrimStart(s) ==
    IF s # <<>> /\ IsWhitespace(Head(s)) THEN TrimStart(Tail(s)) ELSE s
RECURSIVE TrimEnd(_)
TrimEnd(s) ==
    IF s # <<>> /\ IsWhitespace(s[Len(s)])
    THEN TrimEnd(SubSeq(s, 1, Len(s) - 1)) ELSE s
Trim(s) == TrimEnd(TrimStart(s))

\* memchr::memchr(needle, haystack): the first offset of needle, if any
memchr(needle, haystack) ==
    LET hits == {i \in 0..(Len(haystack) - 1) : haystack[i + 1] = needle}
    IN  IF hits = {} THEN None
        ELSE Some(CHOOSE i \in hits : \A j \in hits : i <= j)

\* line.split(sep).collect(): the fields between the separators
RECURSIVE Split(_, _)
Split(s, sep) ==
    LET at == memchr(sep, s)
    IN  IF ~at.some THEN <<s>>
        ELSE <<SubSeq(s, 1, at.val)>> \o Split(SubSeq(s, at.val + 2, Len(s)), sep)

\* std::str::from_utf8 on the bytes of the model: ASCII is valid UTF-8, and
\* a byte of 0x80 or more does not stand alone
FromUtf8(bytes) ==
    IF \A i \in 1..Len(bytes) : bytes[i] < 128 THEN Ok(bytes) ELSE Err("Utf8Error")

(***************************************************************************)
(* f64.  A finite value is the exact decimal num / 10^scale, without       *)
(* trailing zeros in num when scale > 0 (the rounding of binary floating   *)
(* point is not modelled); the infinities and NaN are values of their own. *)
(***************************************************************************)
RECURSIVE Finite(_, _)
Finite(num, scale) ==
    IF scale > 0 /\ num % 10 = 0 THEN Finite(num \div 10, scale - 1)
    ELSE [kind |-> "finite", num |-> num, scale |-> scale]
Infinity(negative) ==
    [kind |-> "inf", num |-> IF negative THEN -1 ELSE 1, scale |-> 0]
NaN == [kind |-> "nan", num |-> 0, scale |-> 0]

RECURSIVE Pow10(_)
Pow10(n) == IF n = 0 THEN 1 ELSE 10 * Pow10(n - 1)

\* num of a finite value at a scale that is not below its own
Scaled(a, scale) == a.num * Pow10(scale - a.scale)
MaxScale(a, b) == IF a.scale >= b.scale THEN a.scale ELSE b.scale

\* a < b on f64: false as soon as one side is NaN
FLess(a, b) ==
    IF a.kind = "nan" \/ b.kind = "nan" THEN FALSE
    ELSE IF a.kind = "inf" THEN a.num < 0 /\ ~(b.kind = "inf" /\ b.num < 0)
    ELSE IF b.kind = "inf" THEN b.num > 0
    ELSE Scaled(a, MaxScale(a, b)) < Scaled(b, MaxScale(a, b))

\* a <= b on f64
FLessEq(a, b) == a.kind # "nan" /\ b.kind # "nan" /\ ~FLess(b, a)

\* a + b on f64
FAdd(a, b) ==
    IF a.kind = "nan" \/ b.kind = "nan" THEN NaN
    ELSE IF a.kind = "inf" /\ b.kind = "inf"
         THEN IF a.num = b.num THEN a ELSE NaN
    ELSE IF a.kind = "inf" THEN a
    ELSE IF b.kind = "inf" THEN b
    ELSE Finite(Scaled(a, MaxScale(a, b)) + Scaled(b, MaxScale(a, b)),
                MaxScale(a, b))

\* f64::min and f64::max: a NaN operand is dropped for the other one
FMin(a, b) ==
    IF a.kind = "nan" THEN b
    ELSE IF b.kind = "nan" THEN a
    ELSE IF FLess(b, a) THEN b ELSE a
FMax(a, b) ==
    IF a.kind = "nan" THEN b
    ELSE IF b.kind = "nan" THEN a
    ELSE IF FLess(a, b) THEN b ELSE a

\* sum / count as f64, count >= 1: the quotient as the fraction num / den
\* in lowest terms, NaN and the infinities unchanged
RECURSIVE Gcd(_, _)
Gcd(a, b) == IF b = 0 THEN a ELSE Gcd(b, a % b)
Abs(x) == IF x < 0 THEN -x ELSE x
FDivCount(sum, count) ==
    IF sum.kind # "finite" THEN [kind |-> sum.kind, num |-> sum.num, den |-> 1]
    ELSE LET den == Pow10(sum.scale) * count
             g == Gcd(Abs(sum.num), den)
         IN  [kind |-> "finite", num |-> sum.num \div g, den |-> den \div g]

IsDigit(b) == b \in 48..57
ToAsciiLowercase(b) == IF b \in 65..90 THEN b + 32 ELSE b
RECURSIVE DigitsValue(_)
DigitsValue(s) ==
    IF s = <<>> THEN 0
    ELSE 10 * DigitsValue(SubSeq(s, 1, Len(s) - 1)) + (s[Len(s)] - 48)

\* f64::from_str: an optional sign, then "inf", "infinity" or "nan" in any
\* case, or digits with at most one '.' and one digit at least.  (An
\* exponent needs an 'e', a byte no input of the model holds.)
ParseF64(text) ==
    LET signed == text # <<>> /\ Head(text) \in {43, 45}
        negative == signed /\ Head(text) = 45
        body == IF signed THEN Tail(text) ELSE text
        lower == [i \in 1..Len(body) |-> ToAsciiLowercase(body[i])] \o <<>>
        dot == memchr(46, body)
        int == IF dot.some THEN SubSeq(body, 1, dot.val) ELSE body
        frac == IF dot.some THEN SubSeq(body, dot.val + 2, Len(body)) ELSE <<>>
        digits == int \o frac
    IN  IF lower \in {<<105, 110, 102>>,
                      <<105, 110, 102, 105, 110, 105, 116, 121>>}
        THEN Ok(Infinity(negative))
        ELSE IF lower = <<110, 97, 110>> THEN Ok(NaN)
        ELSE IF digits # <<>> /\ \A i \in 1..Len(digits) : IsDigit(digits[i])
        THEN Ok(Finite((IF negative THEN -1 ELSE 1) * DigitsValue(digits),
                       Len(frac)))
        ELSE Err("ParseFloatError")

(***************************************************************************)
(* weather.rs: records, errors, the line parser and the record iterator    *)
(***************************************************************************)
\* WeatherRecord::new
WeatherRecord(station, temperature) ==
    [station |-> station, temperature |-> temperature]

\* WeatherError::InvalidFormat(format!(..)) and WeatherError::Parse(format!(..)):
\* the variant, the format string, and what fills its {} places: the line
\* number, then the number of columns found or the text that did not parse
InvalidFormat(format, line, found) ==
    [variant |-> "InvalidFormat", format |-> format, line |-> line,
     found |-> found, text |-> <<>>]
Parse(format, line, text) ==
    [variant |-> "Parse", format |-> format, line |-> line,
     found |-> 0, text |-> text]

\* the columns of a line, with the whole line in the Parse error
ParseColumnsReportingLine(line, line_number) ==
    LET parts == Split(line, SEMICOLON)
        station == Trim(parts[1])
        temperature == ParseF64(Trim(parts[2]))
    IN  IF Len(parts) # 2
        THEN Err(InvalidFormat(
                 "Line {} does not have exactly 2 columns separated by ';'. Found {} columns",
                 line_number, Len(parts)))
        ELSE IF station = <<>>
        THEN Err(InvalidFormat("Line {}: Weather station name cannot be empty",
                               line_number, 0))
        ELSE IF ~temperature.ok
        THEN Err(Parse("Line {}: Cannot parse temperature '{}' as a number",
                       line_number, line))
        ELSE Ok(WeatherRecord(station, temperature.val))

\* the part of a line loop that follows the blank-line test in
\* WeatherRecordIterator::parse_line and in parse_records_string: split on
\* ';', two columns, a station, a temperature
ParseColumns(line, line_number) ==
    LET parts == Split(line, SEMICOLON)
        station == Trim(parts[1])
        temperature_str == Trim(parts[2])
        temperature == ParseF64(temperature_str)
    IN  IF Len(parts) # 2
        THEN Err(InvalidFormat(
                 "Line {} does not have exactly 2 columns separated by ';'. Found {} columns",
                 line_number, Len(parts)))
        ELSE IF station = <<>>
        THEN Err(InvalidFormat("Line {}: Weather station name cannot be empty",
                               line_number, 0))
        ELSE IF ~temperature.ok
        THEN Err(Parse("Line {}: Cannot parse temperature '{}' as a number",
                       line_number, temperature_str))
        ELSE Ok(WeatherRecord(station, temperature.val))

\* WeatherRecordIterator::parse_line, with self.line_number
ParseLine(line, line_number) ==
    IF Trim(line) = <<>>
    THEN Err(InvalidFormat("Line {} is empty", line_number, 0))
    ELSE ParseColumns(Trim(line), line_number)

\* BufRead::read_line at offset pos of data: the bytes up to and including
\* the next '\n', or up to the end; none at the end of the data
ReadLine(data, pos) ==
    LET rest == SubSeq(data, pos + 1, Len(data))
        at == memchr(NEWLINE, rest)
    IN  IF at.some THEN SubSeq(rest, 1, at.val + 1) ELSE rest

\* WeatherRecordIterator::new
WeatherRecordIteratorNew == [pos |-> 0, line_number |-> 0]

\* WeatherRecordIterator::next over data: the iterator afterwards and the
\* item, None at the end of the data
RECURSIVE WeatherRecordIteratorNext(_, _)
WeatherRecordIteratorNext(it, data) ==
    LET line == ReadLine(data, it.pos)
        read == [pos |-> it.pos + Len(line), line_number |-> it.line_number + 1]
    IN  CASE read.pos >= 0 ->
            IF line = <<>> THEN [it |-> read, item |-> None]
            ELSE IF Trim(line) = <<>> THEN WeatherRecordIteratorNext(read, data)
            ELSE [it |-> read, item |-> Some(ParseLine(line, read.line_number))]

\* WeatherCsvReader::read_all from the iterator it: the result, and the
\* number of lines read when it returns
RECURSIVE ReadAllLoop(_, _, _)
ReadAllLoop(it, data, records) ==
    LET next == WeatherRecordIteratorNext(it, data)
    IN  CASE Len(records) >= 0 ->
            IF ~next.item.some
            THEN [result |-> Ok(records), scanned |-> next.it.line_number - 1]
            ELSE IF ~next.item.val.ok
            THEN [result |-> Err(next.item.val.err), scanned |-> next.it.line_number]
            ELSE ReadAllLoop(next.it, data, Append(records, next.item.val.val))

read_all(data) == ReadAllLoop(WeatherRecordIteratorNew, data, <<>>).result

(***************************************************************************)
(* pipeline.rs: stage 3, record parsing.  lines is a sequence of byte      *)
(* slices; a line loop returns Ok(None) where the code says `continue`.    *)
(***************************************************************************)
\* the body of the loop of parse_records_string for lines[line_num + 1]
ParseStringLine(line_bytes, line_num) ==
    LET utf8 == FromUtf8(line_bytes)
        line == Trim(utf8.val)
        parsed == ParseColumns(line, line_num + 1)
    IN  IF line_bytes = <<>> THEN Ok(None)
        ELSE IF ~utf8.ok
        THEN Err(InvalidFormat("Line {}: Invalid UTF-8 encoding", line_num + 1, 0))
        ELSE IF line = <<>> THEN Ok(None)
        ELSE IF parsed.ok THEN Ok(Some(parsed.val)) ELSE parsed

\* parse_records_bytes without the trim of the temperature slice
ParseBytesLineUntrimmedTemperature(line_bytes, line_num) ==
    LET semicolon_pos == memchr(SEMICOLON, line_bytes)
        station == Trim(SubSeq(line_bytes, 1, semicolon_pos.val))
        temperature_str == SubSeq(line_bytes, semicolon_pos.val + 2,
                                  Len(line_bytes))
        temperature == ParseF64(temperature_str)
    IN  IF line_bytes = <<>> THEN Ok(None)
        ELSE IF ~semicolon_pos.some
        THEN Err(InvalidFormat("Line {}: No semicolon delimiter found",
                               line_num + 1, 0))
        ELSE IF semicolon_pos.val = 0
        THEN Err(InvalidFormat("Line {}: Weather station name cannot be empty",
                               line_num + 1, 0))
        ELSE IF ~temperature.ok
        THEN Err(Parse("Line {}: Cannot parse temperature '{}' as a number",
                       line_num + 1, temperature_str))
        ELSE Ok(Some(WeatherRecord(station, temperature.val)))

\* the body of the loop of parse_records_bytes
ParseBytesLine(line_bytes, line_num) ==
    LET semicolon_pos == memchr(SEMICOLON, line_bytes)
        station_str == FromUtf8(SubSeq(line_bytes, 1, semicolon_pos.val))
        station == Trim(station_str.val)
        temp_str == FromUtf8(SubSeq(line_bytes, semicolon_pos.val + 2,
                                    Len(line_bytes)))
        temperature_str == Trim(temp_str.val)
        temperature == ParseF64(temperature_str)
    IN  IF line_bytes = <<>> THEN Ok(None)
        ELSE IF ~semicolon_pos.some
        THEN Err(InvalidFormat("Line {}: No semicolon delimiter found",
                               line_num + 1, 0))
        ELSE IF semicolon_pos.val = 0
        THEN Err(InvalidFormat("Line {}: Weather station name cannot be empty",
                               line_num + 1, 0))
        ELSE IF ~station_str.ok
        THEN Err(InvalidFormat("Line {}: Invalid UTF-8 in station name",
                               line_num + 1, 0))
        ELSE IF ~temp_str.ok
        THEN Err(InvalidFormat("Line {}: Invalid UTF-8 in temperature",
                               line_num + 1, 0))
        ELSE IF ~temperature.ok
        THEN Err(Parse("Line {}: Cannot parse temperature '{}' as a number",
                       line_num + 1, temperature_str))
        ELSE Ok(Some(WeatherRecord(station, temperature.val)))

\* the body of the loop of parse_records_unsafe: from_utf8_unchecked is the
\* identity on the valid UTF-8 its caller promises
ParseUnsafeLine(line_bytes, line_num) ==
    LET semicolon_pos == memchr(SEMICOLON, line_bytes)
        station == Trim(SubSeq(line_bytes, 1, semicolon_pos.val))
        temperature_str == Trim(SubSeq(line_bytes, semicolon_pos.val + 2,
                                       Len(line_bytes)))
        temperature == ParseF64(temperature_str)
    IN  IF line_bytes = <<>> THEN Ok(None)
        ELSE IF ~semicolon_pos.some
        THEN Err(InvalidFormat("Line {}: No semicolon delimiter found",
                               line_num + 1, 0))
        ELSE IF semicolon_pos.val = 0
        THEN Err(InvalidFormat("Line {}: Weather station name cannot be empty",
                               line_num + 1, 0))
        ELSE IF ~temperature.ok
        THEN Err(Parse("Line {}: Cannot parse temperature '{}' as a number",
                       line_num + 1, temperature_str))
        ELSE Ok(Some(WeatherRecord(station, temperature.val)))

\* the three strategies by name
ParserNames == {"string", "bytes", "unsafe"}
ParseRecordLine(parser, line_bytes, line_num) ==
    CASE parser = "string" -> ParseStringLine(line_bytes, line_num)
      [] parser = "bytes" -> ParseBytesLine(line_bytes, line_num)
      [] parser = "unsafe" -> ParseUnsafeLine(line_bytes, line_num)

\* `for (line_num, &line_bytes) in lines.iter().enumerate()` from line_num
\* on: the result, and the number of lines looked at when it returns
RECURSIVE ParseRecordsLoop(_, _, _, _)
ParseRecordsLoop(parser, lines, line_num, records) ==
    LET step == ParseRecordLine(parser, lines[line_num + 1], line_num)
    IN  CASE Len(records) >= 0 ->
            IF line_num >= Len(lines)
            THEN [result |-> Ok(records), scanned |-> line_num]
            ELSE IF ~step.ok
            THEN [result |-> step, scanned |-> line_num + 1]
            ELSE ParseRecordsLoop(parser, lines, line_num + 1,
                     IF step.val.some THEN Append(records, step.val.val)
                                      ELSE records)

parse_records_string(lines) == ParseRecordsLoop("string", lines, 0, <<>>).result
parse_records_bytes(lines) == ParseRecordsLoop("bytes", lines, 0, <<>>).result
parse_records_unsafe(lines) == ParseRecordsLoop("unsafe", lines, 0, <<>>).result

\* the byte slices of the spans a splitter returns
Slices(data, spans) ==
    [i \in 1..Len(spans) |-> SubSeq(data, spans[i].start + 1, spans[i].end)] \o <<>>

(***************************************************************************)
(* weather.rs: StationStats; pipeline.rs: stage 4, aggregation;            *)
(* processor.rs: process_weather_file_silent.                              *)
(* These operators read the state variable hashes through HashTableHash.   *)
(***************************************************************************)
\* StationStats::new
StationStatsNew(station_name, temperature) ==
    [station_name |-> station_name, count |-> 1,
     min_temperature |-> temperature, max_temperature |-> temperature,
     sum_temperature |-> temperature]

\* add_temperature taking the new temperature for the minimum
AddTemperatureLastAsMin(stats, temperature) ==
    [stats EXCEPT !.count = @ + 1,
                  !.min_temperature = temperature,
                  !.max_temperature = FMax(@, temperature),
                  !.sum_temperature = FAdd(@, temperature)]

\* StationStats::add_temperature
AddTemperature(stats, temperature) ==
    [stats EXCEPT !.count = @ + 1,
                  !.min_temperature = FMin(@, temperature),
                  !.max_temperature = FMax(@, temperature),
                  !.sum_temperature = FAdd(@, temperature)]

\* StationStats::avg_temperature
AvgTemperature(stats) ==
    IF stats.count = 0 THEN FDivCount(Finite(0, 0), 1)
    ELSE FDivCount(stats.sum_temperature, stats.count)

\* HashTable::new
HashTableNew == HashTableWithCapacity(INITIAL_CAPACITY)

\* the match of aggregate_records_std on one record: get, then insert of
\* the updated clone or of new stats
FoldRecordStd(station_stats, record) ==
    LET existing == HashTableGet(station_stats, record.station).ret
    IN  IF existing.some
        THEN HashTableInsert(station_stats, record.station,
                 AddTemperature(existing.val, record.temperature)).table
        ELSE HashTableInsert(station_stats, record.station,
                 StationStatsNew(record.station, record.temperature)).table

\* aggregate_records_std: `for record in records` from index i on
RECURSIVE AggregateStdLoop(_, _, _)
AggregateStdLoop(records, i, station_stats) ==
    CASE station_stats.size >= 0 ->
        IF i > Len(records) THEN station_stats
        ELSE AggregateStdLoop(records, i + 1, FoldRecordStd(station_stats, records[i]))

aggregate_records_std(records) == AggregateStdLoop(records, 1, HashTableNew)

\* FxHashMap<String, StationStats>: a map is the function from its keys to
\* their values; FxHashMap::default() is the empty one
FxHashMapDefault == <<>>
FxGet(map, key) == IF key \in DOMAIN map THEN Some(map[key]) ELSE None
FxInsert(map, key, value) ==
    [k \in DOMAIN map \cup {key} |-> IF k = key THEN value ELSE map[k]]

\* aggregate_records_fx inserting new stats for every record
FoldRecordFxOverwriting(station_stats, record) ==
    FxInsert(station_stats, record.station,
             StationStatsNew(record.station, record.temperature))

\* the match of aggregate_records_fx on one record: get_mut and the update
\* in place, or insert of new stats
FoldRecordFx(station_stats, record) ==
    IF FxGet(station_stats, record.station).some
    THEN [station_stats EXCEPT ![record.station] =
              AddTemperature(@, record.temperature)]
    ELSE FxInsert(station_stats, record.station,
                  StationStatsNew(record.station, record.temperature))

RECURSIVE AggregateFxLoop(_, _, _)
AggregateFxLoop(records, i, station_stats) ==
    IF i > Len(records) THEN station_stats
    ELSE AggregateFxLoop(records, i + 1, FoldRecordFx(station_stats, records[i]))

aggregate_records_fx(records) == AggregateFxLoop(records, 1, FxHashMapDefault)

\* the match of aggregate_records_streaming on one record
FoldRecordStreaming(station_stats, record) ==
    LET existing == HashTableGet(station_stats, record.station).ret
    IN  IF existing.some
        THEN HashTableInsert(station_stats, record.station,
                 AddTemperature(existing.val, record.temperature)).table
        ELSE HashTableInsert(station_stats, record.station,
                 StationStatsNew(record.station, record.temperature)).table

\* aggregate_records_streaming: `for record in records` over an iterator,
\* here the records it has yet to yield
RECURSIVE AggregateStreamingLoop(_, _)
AggregateStreamingLoop(records, station_stats) ==
    CASE station_stats.size >= 0 ->
        IF records = <<>> THEN station_stats
        ELSE AggregateStreamingLoop(Tail(records),
                 FoldRecordStreaming(station_stats, Head(records)))

aggregate_records_streaming(records) == AggregateStreamingLoop(records, HashTableNew)

\* process_weather_file_silent inserting new stats for every record
FoldRecordSilentOverwriting(station_stats, record) ==
    HashTableInsert(station_stats, record.station,
        StationStatsNew(record.station, record.temperature)).table

\* the match of process_weather_file_silent on one record
FoldRecordSilent(station_stats, record) ==
    LET existing == HashTableGet(station_stats, record.station).ret
    IN  IF existing.some
        THEN HashTableInsert(station_stats, record.station,
                 AddTemperature(existing.val, record.temperature)).table
        ELSE HashTableInsert(station_stats, record.station,
                 StationStatsNew(record.station, record.temperature)).table

\* process_weather_file_silent after from_path: `for record_result in
\* reader.records()` with `record_result?`; the result, the number of lines
\* read and the number of records folded when it returns
RECURSIVE ProcessSilentLoop(_, _, _, _)
ProcessSilentLoop(it, data, station_stats, folded) ==
    LET next == WeatherRecordIteratorNext(it, data)
    IN  CASE station_stats.size >= 0 ->
            IF ~next.item.some
            THEN [result |-> Ok(station_stats),
                  scanned |-> next.it.line_number - 1, folded |-> folded]
            ELSE IF ~next.item.val.ok
            THEN [result |-> Err(next.item.val.err),
                  scanned |-> next.it.line_number, folded |-> folded]
            ELSE ProcessSilentLoop(next.it, data,
                     FoldRecordSilent(station_stats, next.item.val.val),
                     folded + 1)

process_weather_file_silent(data) ==
    ProcessSilentLoop(WeatherRecordIteratorNew, data, HashTableNew, 0).result

\* the last line of pipeline_mmap_string, on what parse_records_string
\* returned: `?`, then Ok(aggregate_records_std(&records)); the result, the
\* number of lines looked at and the number of records folded
PipelineAggregateStd(run) ==
    IF run.result.ok
    THEN [result |-> Ok(aggregate_records_std(run.result.val)),
          scanned |-> run.scanned, folded |-> Len(run.result.val)]
    ELSE [result |-> run.result, scanned |-> run.scanned, folded |-> 0]

\* pipeline_mmap_string after read_file_raw_mmap: split_into_lines_simd,
\* parse_records_string, aggregate_records_std.  (The records are bound as
\* the element of a set, which computes them once.)
PipelineMmapStringRun(data) ==
    LET lines == Slices(data, split_into_lines_simd(data))
    IN  CHOOSE out \in {PipelineAggregateStd(run) :
                            run \in {ParseRecordsLoop("string", lines, 0, <<>>)}} :
            TRUE

pipeline_mmap_string(data) == PipelineMmapStringRun(data).result

(***************************************************************************)
(* pipeline.rs: stage 5, the full pipelines.  data is what stage 1 read:   *)
(* the bytes of the file.                                                  *)
(***************************************************************************)
\* pipeline_current: process_weather_file_silent
PipelineCurrentRun(data) ==
    ProcessSilentLoop(WeatherRecordIteratorNew, data, HashTableNew, 0)

\* pipeline_mmap_bytes, pipeline_mmap_unsafe and pipeline_buffered_bytes
\* after stage 1: split_into_lines_simd, the parser with `?`,
\* aggregate_records_std
PipelineSimdRun(parser, data) ==
    LET lines == Slices(data, split_into_lines_simd(data))
    IN  CHOOSE out \in {PipelineAggregateStd(run) :
                            run \in {ParseRecordsLoop(parser, lines, 0, <<>>)}} :
            TRUE

pipeline_current(data) == PipelineCurrentRun(data).result
pipeline_mmap_bytes(data) == PipelineSimdRun("bytes", data).result
pipeline_mmap_unsafe(data) == PipelineSimdRun("unsafe", data).result
pipeline_buffered_bytes(data) == PipelineSimdRun("bytes", data).result

\* BufRead::lines: the lines of data without their "\n" or "\r\n"
RECURSIVE BufReadLines(_, _)
BufReadLines(data, pos) ==
    LET line == ReadLine(data, pos)
        n == Len(line)
        cut == IF n >= 2 /\ line[n] = NEWLINE /\ line[n - 1] = 13 THEN n - 2
               ELSE IF n >= 1 /\ line[n] = NEWLINE THEN n - 1
               ELSE n
    IN  IF line = <<>> THEN <<>>
        ELSE <<SubSeq(line, 1, cut)>> \o BufReadLines(data, pos + n)

\* `f64::from_str(..)?` in pipeline_streaming: the ParseFloatError, boxed
ParseFloatError ==
    [variant |-> "ParseFloatError", format |-> "invalid float literal",
     line |-> 0, found |-> 0, text |-> <<>>]

\* pipeline_streaming without the trim of the temperature
StreamingLineUntrimmedTemperature(text, line_num) ==
    LET line == Trim(text)
        parts == Split(line, SEMICOLON)
        temperature == ParseF64(parts[2])
    IN  IF line = <<>> THEN Ok(None)
        ELSE IF Len(parts) # 2
        THEN Err(InvalidFormat("Line {} does not have exactly 2 columns",
                               line_num + 1, 0))
        ELSE IF ~temperature.ok THEN Err([variant |-> "ParseFloatError",
                 format |-> "invalid float literal", line |-> 0, found |-> 0,
                 text |-> <<>>])
        ELSE Ok(Some(WeatherRecord(Trim(parts[1]), temperature.val)))

\* the body of the loop of pipeline_streaming up to WeatherRecord::new
StreamingLine(text, line_num) ==
    LET line == Trim(text)
        parts == Split(line, SEMICOLON)
        station == Trim(parts[1])
        temperature == ParseF64(Trim(parts[2]))
    IN  IF line = <<>> THEN Ok(None)
        ELSE IF Len(parts) # 2
        THEN Err(InvalidFormat("Line {} does not have exactly 2 columns",
                               line_num + 1, 0))
        ELSE IF ~temperature.ok THEN Err(ParseFloatError)
        ELSE Ok(Some(WeatherRecord(station, temperature.val)))

\* the match of pipeline_streaming on one record
FoldRecordPipelineStreaming(station_stats, record) ==
    LET existing == HashTableGet(station_stats, record.station).ret
    IN  IF existing.some
        THEN HashTableInsert(station_stats, record.station,
                 AddTemperature(existing.val, record.temperature)).table
        ELSE HashTableInsert(station_stats, record.station,
                 StationStatsNew(record.station, record.temperature)).table

\* `for (line_num, line_result) in reader.lines().enumerate()` from line_num
\* on: the result, the number of lines read and of records folded
RECURSIVE PipelineStreamingLoop(_, _, _, _)
PipelineStreamingLoop(lines, line_num, station_stats, folded) ==
    LET step == StreamingLine(lines[line_num + 1], line_num)
    IN  CASE station_stats.size >= 0 ->
            IF line_num >= Len(lines)
            THEN [result |-> Ok(station_stats), scanned |-> line_num,
                  folded |-> folded]
            ELSE IF ~step.ok
            THEN [result |-> step, scanned |-> line_num + 1, folded |-> folded]
            ELSE IF ~step.val.some
            THEN PipelineStreamingLoop(lines, line_num + 1, station_stats, folded)
            ELSE PipelineStreamingLoop(lines, line_num + 1,
                     FoldRecordPipelineStreaming(station_stats, step.val.val),
                     folded + 1)

PipelineStreamingRun(data) ==
    CHOOSE out \in {PipelineStreamingLoop(lines, 0, HashTableNew, 0) :
                        lines \in {BufReadLines(data, 0)}} : TRUE

pipeline_streaming(data) == PipelineStreamingRun(data).result

\* the six pipelines by name; the parser of those that split with
\* split_into_lines_simd and parse with a parse_records_*
PipelineNames ==
    {"pipeline_current", "pipeline_mmap_string", "pipeline_mmap_bytes",
     "pipeline_mmap_unsafe", "pipeline_buffered_bytes", "pipeline_streaming"}
PipelineParser(name) ==
    CASE name = "pipeline_mmap_string" -> "string"
      [] name = "pipeline_mmap_bytes" -> "bytes"
      [] name = "pipeline_mmap_unsafe" -> "unsafe"
      [] name = "pipeline_buffered_bytes" -> "bytes"
      [] OTHER -> "-"
PipelineRun(name, data) ==
    CASE name = "pipeline_current" -> PipelineCurrentRun(data)
      [] name = "pipeline_streaming" -> PipelineStreamingRun(data)
      [] OTHER -> PipelineSimdRun(PipelineParser(name), data)

(***************************************************************************)
(* hash_table.rs: the iterators; main.rs: the report                       *)
(***************************************************************************)
\* iter starting at the second bucket
HashTableIterSkippingFirstBucket(t) == Flatten(t.buckets, 2)

\* HashTable::iter: a flat_map over the buckets in order, of the pairs of a
\* chain in order
HashTableIter(t) == Flatten(t.buckets, 1)

\* HashTable::keys and values: the same flat_map, of the components
HashTableKeys(t) ==
    Flatten([b \in 1..Len(t.buckets) |->
                [i \in 1..Len(t.buckets[b]) |-> t.buckets[b][i][1]]], 1)

HashTableValues(t) ==
    Flatten([b \in 1..Len(t.buckets) |->
                [i \in 1..Len(t.buckets[b]) |-> t.buckets[b][i][2]]], 1)

\* HashTable::contains_key
HashTableContainsKey(t, key) ==
    LET r == HashTableGet(t, key)
    IN  [ret |-> r.ret.some, panic |-> r.panic]

\* the match of read_weather_file on one record
FoldRecordReport(station_stats, record) ==
    LET existing == HashTableGet(station_stats, record.station).ret
    IN  IF existing.some
        THEN HashTableInsert(station_stats, record.station,
                 AddTemperature(existing.val, record.temperature)).table
        ELSE HashTableInsert(station_stats, record.station,
                 StationStatsNew(record.station, record.temperature)).table

\* what main and read_weather_file print: a line is its format string and
\* the values given to it
UsageLines ==
    <<[format |-> "Usage: {} <weather_file.csv>", args |-> <<"args[0]">>],
      [format |-> "Example: {} weather_data.csv", args |-> <<"args[0]">>]>>
ErrorLine(e) == [format |-> "Error: {}", args |-> <<e>>]
NoRecordsLine ==
    [format |-> "No weather records found in the file.", args |-> <<>>]
HeaderLine ==
    [format |-> "Station,Records,MinTemperature,MaxTemperature,AvgTemperature",
     args |-> <<>>]
RowLine(station, stats) ==
    [format |-> "{},{},{:.1},{:.1},{:.1}",
     args |-> <<station, stats.count, stats.min_temperature,
                stats.max_temperature, AvgTemperature(stats)>>]

(***************************************************************************)
(* State                                                                   *)
(***************************************************************************)
VARIABLES
    \* one hasher: which struct it is (32 or 64) and its fields
    variant, hasher,
    written,        \* every byte given to write so far, in order
    writes,         \* number of write calls so far
    digest,         \* what the last finish returned, None after a write
    finished,       \* the finish calls so far: [earlier, recent]
    \* one HashTable
    buckets, size, capacity,
    panicked,       \* a call panicked: the thread is gone
    model,          \* the key -> value map the calls so far describe
    call,           \* the last call: [op, key, value]
    ret,            \* what the last call returned
    \* one run of each line splitter over the same buffer
    data, lines_basic, lines_simd,
    \* one input file and the one reading of it
    file_lines,     \* the lines of the file, without their '\n'
    newline_at_end, \* the file ends with '\n'
    stage,          \* which reader ran: [op, splitter, parser]
    outcome,        \* what it returned: [result, scanned, folded]
    \* one record sequence and what each aggregator made of it
    records, stats_std, stats_fx, stats_streaming,
    \* one run of the program on the input file
    pc,             \* where main is
    reader,         \* the WeatherRecordIterator of read_weather_file
    station_stats,  \* its HashTable
    returned,       \* what read_weather_file returned, once it has
    stdout, stderr, \* the lines printed so far
    exit_status     \* the status the process ended with

xxVars == <<variant, hasher, written, writes, digest, finished>>
htVars == <<hashes, buckets, size, capacity, panicked, model, call, ret>>
splitVars == <<data, lines_basic, lines_simd>>
ingestVars == <<file_lines, newline_at_end, stage, outcome>>
aggregateVars == <<records, stats_std, stats_fx, stats_streaming>>
reportVars == <<pc, reader, station_stats, returned, stdout, stderr, exit_status>>
vars == <<xxVars, htVars, splitVars, ingestVars, aggregateVars, reportVars>>

\* the finish calls on the hasher: the length of the input at the last one
\* that came before the last write (-1 when there is none), and the number
\* of them since the last write
NotFinished == [earlier |-> -1, recent |-> 0]
AfterWrite(f, len) ==
    IF f.recent > 0 THEN [earlier |-> len, recent |-> 0] ELSE f
NoCall == [op |-> "new", key |-> <<>>, value |-> 0]
NotRun == <<Span(0, 0)>>      \* no splitter returns an empty span
NotAggregated == [aggregated |-> FALSE]

\* the components at rest, for the specifications that do not run them
XxIdle ==
    /\ variant = 64 /\ hasher = XxHash64New(WordOf(0, 8))
    /\ written = <<>> /\ writes = 0 /\ digest = None /\ finished = NotFinished
TableIdle ==
    /\ buckets = <<>> /\ size = 0 /\ capacity = 0 /\ panicked = FALSE
    /\ model = [k \in Keys |-> None] /\ call = NoCall /\ ret = None
HtIdle == hashes = <<>> /\ TableIdle
SplitIdle ==
    /\ data = <<>> /\ lines_basic = NotRun /\ lines_simd = NotRun
IngestIdle ==
    /\ file_lines = <<>> /\ newline_at_end = FALSE
    /\ stage = [op |-> "none", splitter |-> "-", parser |-> "-"]
    /\ outcome = [result |-> Ok(<<>>), scanned |-> 0, folded |-> 0]
AggregateIdle ==
    /\ records = <<>> /\ stats_std = NotAggregated
    /\ stats_fx = NotAggregated /\ stats_streaming = NotAggregated
ReportIdle ==
    /\ pc = "idle" /\ reader = [pos |-> 0, line_number |-> 0]
    /\ station_stats = [buckets |-> <<>>, size |-> 0, capacity |-> 0]
    /\ returned = None /\ stdout = <<>> /\ stderr = <<>> /\ exit_status = -1

(***************************************************************************)
(* The hasher: new(seed), then write and finish in any order               *)
(***************************************************************************)
Seeds32 == {WordOf(0, 4), PRIME32_1}
Seeds64 == {WordOf(0, 8), PRIME64_1}
\* chunk lengths around the stripe size: nothing, one byte, one byte short of
\* a stripe, a stripe, one byte more, and two stripes and a byte
ChunkLengths(stripe) == {0, 1, stripe - 1, stripe, stripe + 1, 2 * stripe + 1}
\* the byte at offset p of the input stream
StreamByte(p) == (p * 167 + 13) % 256
Chunk(from, len) == Bytes([i \in 1..len |-> StreamByte(from + i - 1)])

XxInit ==
    /\ variant \in {32, 64}
    /\ hasher \in IF variant = 32 THEN {XxHash32New(s) : s \in Seeds32}
                                  ELSE {XxHash64New(s) : s \in Seeds64}
    /\ written = <<>>
    /\ writes = 0
    /\ digest = None
    /\ finished = NotFinished
    /\ HtIdle /\ SplitIdle /\ IngestIdle /\ AggregateIdle /\ ReportIdle

Write32(len) ==
    /\ variant = 32 /\ writes < MaxWrites
    /\ LET input == Chunk(Len(written), len)
       IN  /\ hasher' = XxHash32Write(hasher, input)
           /\ written' = written \o input
    /\ writes' = writes + 1
    /\ digest' = None
    /\ finished' = AfterWrite(finished, Len(written))
    /\ UNCHANGED <<variant, htVars, splitVars, ingestVars, aggregateVars, reportVars>>

Write64(len) ==
    /\ variant = 64 /\ writes < MaxWrites
    /\ LET input == Chunk(Len(written), len)
       IN  /\ hasher' = XxHash64Write(hasher, input)
           /\ written' = written \o input
    /\ writes' = writes + 1
    /\ digest' = None
    /\ finished' = AfterWrite(finished, Len(written))
    /\ UNCHANGED <<variant, htVars, splitVars, ingestVars, aggregateVars, reportVars>>

Finish32 ==
    /\ variant = 32 /\ finished.recent < MaxFinishes
    /\ digest' = Some(XxHash32Finish(hasher))
    /\ hasher' = HasherAfterFinish(hasher)
    /\ finished' = [finished EXCEPT !.recent = @ + 1]
    /\ UNCHANGED <<variant, written, writes, htVars, splitVars, ingestVars, aggregateVars, reportVars>>

Finish64 ==
    /\ variant = 64 /\ finished.recent < MaxFinishes
    /\ digest' = Some(XxHash64Finish(hasher))
    /\ hasher' = HasherAfterFinish(hasher)
    /\ finished' = [finished EXCEPT !.recent = @ + 1]
    /\ UNCHANGED <<variant, written, writes, htVars, splitVars, ingestVars, aggregateVars, reportVars>>

XxNext ==
    \/ \E len \in ChunkLengths(16) : Write32(len)
    \/ \E len \in ChunkLengths(32) : Write64(len)
    \/ Finish32
    \/ Finish64

SpecXxHash == XxInit /\ [][XxNext]_vars

(***************************************************************************)
(* The table: with_capacity(n), then insert, get and remove in any order   *)
(***************************************************************************)
Table == [buckets |-> buckets, size |-> size, capacity |-> capacity]

HtInit ==
    /\ hashes = KeyHashes
    /\ \E n \in InitialCapacities :
          LET t == HashTableWithCapacity(n)
          IN  buckets = t.buckets /\ size = t.size /\ capacity = t.capacity
    /\ panicked = FALSE
    /\ model = [k \in Keys |-> None]
    /\ call = NoCall
    /\ ret = None
    /\ XxIdle /\ SplitIdle /\ IngestIdle /\ AggregateIdle /\ ReportIdle

Insert(key, value) ==
    /\ ~panicked
    /\ LET r == HashTableInsert(Table, key, value)
       IN  /\ buckets' = r.table.buckets
           /\ size' = r.table.size
           /\ capacity' = r.table.capacity
           /\ panicked' = r.panic
           /\ ret' = r.ret
           /\ model' = IF r.panic THEN model ELSE [model EXCEPT ![key] = Some(value)]
    /\ call' = [op |-> "insert", key |-> key, value |-> value]
    /\ UNCHANGED <<hashes, xxVars, splitVars, ingestVars, aggregateVars, reportVars>>

Get(key) ==
    /\ ~panicked
    /\ LET r == HashTableGet(Table, key)
       IN  /\ panicked' = r.panic
           /\ ret' = r.ret
    /\ call' = [op |-> "get", key |-> key, value |-> 0]
    /\ UNCHANGED <<hashes, buckets, size, capacity, model, xxVars, splitVars, ingestVars, aggregateVars, reportVars>>

\* contains_key answers with a bool: ret holds it as it is
ContainsKey(key) ==
    /\ ~panicked
    /\ LET r == HashTableContainsKey(Table, key)
       IN  /\ panicked' = r.panic
           /\ ret' = r.ret
    /\ call' = [op |-> "contains_key", key |-> key, value |-> 0]
    /\ UNCHANGED <<hashes, buckets, size, capacity, model, xxVars, splitVars, ingestVars, aggregateVars, reportVars>>

Remove(key) ==
    /\ ~panicked
    /\ LET r == HashTableRemove(Table, key)
       IN  /\ buckets' = r.table.buckets
           /\ size' = r.table.size
           /\ capacity' = r.table.capacity
           /\ panicked' = r.panic
           /\ ret' = r.ret
           /\ model' = IF r.panic THEN model ELSE [model EXCEPT ![key] = None]
    /\ call' = [op |-> "remove", key |-> key, value |-> 0]
    /\ UNCHANGED <<hashes, xxVars, splitVars, ingestVars, aggregateVars, reportVars>>

HtNext ==
    \/ \E key \in Keys, value \in Values : Insert(key, value)
    \/ \E key \in Keys : Get(key)
    \/ \E key \in Keys : ContainsKey(key)
    \/ \E key \in Keys : Remove(key)

SpecHashTable == HtInit /\ [][HtNext]_vars

(***************************************************************************)
(* The splitters: one buffer, split by each strategy                       *)
(***************************************************************************)
\* the bytes a buffer is made of: '\n', ';' and 'a'
BufferBytes == {NEWLINE, 59, 97}
Buffers == UNION {[1..n -> BufferBytes] : n \in 0..MaxBufLen}

SplitInit ==
    /\ data \in Buffers
    /\ lines_basic = NotRun
    /\ lines_simd = NotRun
    /\ XxIdle /\ HtIdle /\ IngestIdle /\ AggregateIdle /\ ReportIdle

SplitBasic ==
    /\ lines_basic = NotRun
    /\ lines_basic' = split_into_lines_basic(data)
    /\ UNCHANGED <<data, lines_simd, xxVars, htVars, ingestVars, aggregateVars, reportVars>>

SplitSimd ==
    /\ lines_simd = NotRun
    /\ lines_simd' = split_into_lines_simd(data)
    /\ UNCHANGED <<data, lines_basic, xxVars, htVars, ingestVars, aggregateVars, reportVars>>

SplitNext == SplitBasic \/ SplitSimd

SpecSplit == SplitInit /\ [][SplitNext]_vars

(***************************************************************************)
(* Ingestion: one input file, read once by one of the readers              *)
(***************************************************************************)
\* the lines a file is made of, as bytes without their '\n':
\*   "A;1"  " B ; -2.5 "  "B;3"  "B;3\r"      well-formed
\*   "A;nan"                                 a station and a NaN
\*   ""  " "  "\r"                            blank
\*   ";1"  " ;1"                              no station
\*   "A1"  "A;1;2"                            not one ';'
\*   "A;x"  "A; x "  "A;"                     no number
LineTexts ==
    {<<65, 59, 49>>, <<32, 66, 32, 59, 32, 45, 50, 46, 53, 32>>,
     <<66, 59, 51>>, <<66, 59, 51, 13>>, <<65, 59, 110, 97, 110>>,
     <<>>, <<32>>, <<13>>,
     <<59, 49>>, <<32, 59, 49>>,
     <<65, 49>>, <<65, 59, 49, 59, 50>>,
     <<65, 59, 120>>, <<65, 59, 32, 120, 32>>, <<65, 59>>}
Files == UNION {[1..n -> LineTexts] : n \in 0..MaxLines}

\* the bytes of the file: its lines with a '\n' between them, and one after
\* the last line if the file ends with a newline
RECURSIVE JoinLines(_)
JoinLines(ls) ==
    IF ls = <<>> THEN <<>>
    ELSE IF Len(ls) = 1 THEN ls[1]
    ELSE ls[1] \o <<NEWLINE>> \o JoinLines(Tail(ls))
FileBytes == JoinLines(file_lines) \o (IF newline_at_end THEN <<NEWLINE>> ELSE <<>>)

SplitterNames == {"basic", "simd"}
SplitIntoLines(splitter, bytes) ==
    CASE splitter = "basic" -> split_into_lines_basic(bytes)
      [] splitter = "simd" -> split_into_lines_simd(bytes)

NotRead == [op |-> "none", splitter |-> "-", parser |-> "-"]
NoResult == [result |-> Ok(<<>>), scanned |-> 0, folded |-> 0]

\* the stations of the files, the empty name among them
StationKeys == {<<>>, <<65>>, <<66>>}

IngestInit ==
    /\ hashes = [key \in StationKeys |-> HashOfKey(key)]
    /\ file_lines \in Files
    /\ newline_at_end \in BOOLEAN
    /\ stage = NotRead
    /\ outcome = NoResult
    /\ XxIdle /\ TableIdle /\ SplitIdle /\ AggregateIdle /\ ReportIdle

\* WeatherCsvReader::read_all on the file
ReadAll ==
    /\ stage = NotRead
    /\ stage' = [op |-> "read_all", splitter |-> "-", parser |-> "-"]
    /\ LET run == ReadAllLoop(WeatherRecordIteratorNew, FileBytes, <<>>)
       IN  outcome' = [result |-> run.result, scanned |-> run.scanned,
                       folded |-> 0]
    /\ UNCHANGED <<file_lines, newline_at_end, xxVars, htVars, splitVars, aggregateVars, reportVars>>

\* parse_records_string, _bytes or _unsafe on the lines of the file
ParseRecords(parser) ==
    /\ stage = NotRead
    /\ stage' = [op |-> "parse_records", splitter |-> "-", parser |-> parser]
    /\ LET run == ParseRecordsLoop(parser, file_lines, 0, <<>>)
       IN  outcome' = [result |-> run.result, scanned |-> run.scanned,
                       folded |-> 0]
    /\ UNCHANGED <<file_lines, newline_at_end, xxVars, htVars, splitVars, aggregateVars, reportVars>>

\* stages 2 and 3 of a pipeline on the bytes of the file: a splitter, then
\* a parser on the slices of its spans
SplitThenParse(splitter, parser) ==
    /\ stage = NotRead
    /\ stage' = [op |-> "split_then_parse", splitter |-> splitter,
                 parser |-> parser]
    /\ LET bytes == FileBytes
           run == ParseRecordsLoop(parser,
                      Slices(bytes, SplitIntoLines(splitter, bytes)), 0, <<>>)
       IN  outcome' = [result |-> run.result, scanned |-> run.scanned,
                       folded |-> 0]
    /\ UNCHANGED <<file_lines, newline_at_end, xxVars, htVars, splitVars, aggregateVars, reportVars>>

\* process_weather_file_silent on the file
ProcessSilent ==
    /\ stage = NotRead
    /\ stage' = [op |-> "process_silent", splitter |-> "-", parser |-> "-"]
    /\ outcome' = ProcessSilentLoop(WeatherRecordIteratorNew, FileBytes,
                                    HashTableNew, 0)
    /\ UNCHANGED <<file_lines, newline_at_end, xxVars, htVars, splitVars, aggregateVars, reportVars>>

\* pipeline_mmap_string on the file
PipelineMmapString ==
    /\ stage = NotRead
    /\ stage' = [op |-> "pipeline_mmap_string", splitter |-> "simd",
                 parser |-> "string"]
    /\ outcome' = PipelineMmapStringRun(FileBytes)
    /\ UNCHANGED <<file_lines, newline_at_end, xxVars, htVars, splitVars, aggregateVars, reportVars>>

\* one of the other five pipelines on the file
Pipeline(name) ==
    /\ stage = NotRead
    /\ stage' = [op |-> name,
                 splitter |-> IF PipelineParser(name) = "-" THEN "-" ELSE "simd",
                 parser |-> PipelineParser(name)]
    /\ outcome' = PipelineRun(name, FileBytes)
    /\ UNCHANGED <<file_lines, newline_at_end, xxVars, htVars, splitVars, aggregateVars, reportVars>>

IngestNext ==
    \/ ReadAll
    \/ \E parser \in ParserNames : ParseRecords(parser)
    \/ \E splitter \in SplitterNames, parser \in ParserNames :
           SplitThenParse(splitter, parser)
    \/ ProcessSilent
    \/ PipelineMmapString
    \/ \E name \in PipelineNames \ {"pipeline_mmap_string"} : Pipeline(name)

SpecIngest == IngestInit /\ [][IngestNext]_vars

(***************************************************************************)
(* Aggregation: one record sequence, folded by each aggregator             *)
(***************************************************************************)
Stations == {<<65>>, <<66>>}
\* 10, -5.5 and 30, which f64 holds and adds exactly, and NaN, which
\* f64::from_str gives for "nan"
Temperatures == {Finite(10, 0), Finite(-55, 1), Finite(30, 0), NaN}
Records == {WeatherRecord(s, t) : s \in Stations, t \in Temperatures}
RecordLists == UNION {[1..n -> Records] : n \in 0..MaxRecords}

AggregateInit ==
    /\ hashes = KeyHashes
    /\ records \in RecordLists
    /\ stats_std = NotAggregated
    /\ stats_fx = NotAggregated
    /\ stats_streaming = NotAggregated
    /\ XxIdle /\ TableIdle /\ SplitIdle /\ IngestIdle /\ ReportIdle

AggregateStd ==
    /\ stats_std = NotAggregated
    /\ stats_std' = aggregate_records_std(records)
    /\ UNCHANGED <<records, stats_fx, stats_streaming,
                   xxVars, htVars, splitVars, ingestVars, reportVars>>

AggregateFx ==
    /\ stats_fx = NotAggregated
    /\ stats_fx' = aggregate_records_fx(records)
    /\ UNCHANGED <<records, stats_std, stats_streaming,
                   xxVars, htVars, splitVars, ingestVars, reportVars>>

AggregateStreaming ==
    /\ stats_streaming = NotAggregated
    /\ stats_streaming' = aggregate_records_streaming(records)
    /\ UNCHANGED <<records, stats_std, stats_fx,
                   xxVars, htVars, splitVars, ingestVars, reportVars>>

AggregateNext == AggregateStd \/ AggregateFx \/ AggregateStreaming

SpecAggregate == AggregateInit /\ [][AggregateNext]_vars


(***************************************************************************)
(* The program: main on one input file, a step at a time                   *)
(***************************************************************************)
\* the number of command-line arguments, the program name among them
ArgCounts == {1, 2, 3}

ReportInit ==
    /\ hashes = [key \in StationKeys |-> HashOfKey(key)]
    /\ file_lines \in Files
    /\ newline_at_end \in BOOLEAN
    /\ stage = NotRead
    /\ outcome = NoResult
    /\ pc = "main"
    /\ reader = WeatherRecordIteratorNew
    /\ station_stats = HashTableWithCapacity(0)
    /\ returned = None
    /\ stdout = <<>>
    /\ stderr = <<>>
    /\ exit_status = -1       \* not ended
    /\ XxIdle /\ TableIdle /\ SplitIdle /\ AggregateIdle

\* main up to the call of read_weather_file, and the first two lines of
\* read_weather_file: the usage message and exit(1) unless there is one
\* argument, else the reader on the file and the empty table
Main(argc) ==
    /\ pc = "main"
    /\ IF argc # 2
       THEN /\ stderr' = stderr \o UsageLines
            /\ exit_status' = 1
            /\ pc' = "exited"
            /\ UNCHANGED <<reader, station_stats>>
       ELSE /\ reader' = WeatherRecordIteratorNew
            /\ station_stats' = HashTableNew
            /\ pc' = "loop"
            /\ UNCHANGED <<stderr, exit_status>>
    /\ UNCHANGED <<returned, stdout, ingestVars, xxVars, htVars, splitVars,
                   aggregateVars>>

\* one turn of `for record_result in reader.records()`: the end of the
\* loop, the return of `record_result?`, or the fold of the record
NextRecord ==
    /\ pc = "loop"
    /\ LET next == WeatherRecordIteratorNext(reader, FileBytes)
       IN  /\ reader' = next.it
           /\ IF ~next.item.some
              THEN /\ pc' = "after_loop"
                   /\ UNCHANGED <<station_stats, returned>>
              ELSE IF ~next.item.val.ok
              THEN /\ returned' = Some(Err(next.item.val.err))
                   /\ pc' = "returned"
                   /\ UNCHANGED station_stats
              ELSE /\ station_stats' =
                          FoldRecordReport(station_stats, next.item.val.val)
                   /\ pc' = "loop"
                   /\ UNCHANGED returned
    /\ UNCHANGED <<stdout, stderr, exit_status, ingestVars, xxVars, htVars,
                   splitVars, aggregateVars>>

\* `if station_stats.is_empty()`: the message and Ok(()), or the header
CheckEmpty ==
    /\ pc = "after_loop"
    /\ IF HashTableIsEmpty(station_stats)
       THEN /\ stderr' = Append(stderr, NoRecordsLine)
            /\ returned' = Some(Ok(<<>>))
            /\ pc' = "returned"
            /\ UNCHANGED stdout
       ELSE /\ stdout' = Append(stdout, HeaderLine)
            /\ pc' = "rows"
            /\ UNCHANGED <<stderr, returned>>
    /\ UNCHANGED <<reader, station_stats, exit_status, ingestVars, xxVars,
                   htVars, splitVars, aggregateVars>>

\* one turn of `for (station, stats) in station_stats.iter()`: the next
\* row, or Ok(()) after the last; the rows printed are those after the header
PrintRow ==
    /\ pc = "rows"
    /\ LET entries == HashTableIter(station_stats)
           printed == Len(stdout) - 1
       IN  IF printed < Len(entries)
           THEN /\ stdout' = Append(stdout, RowLine(entries[printed + 1][1],
                                                    entries[printed + 1][2]))
                /\ UNCHANGED <<pc, returned>>
           ELSE /\ returned' = Some(Ok(<<>>))
                /\ pc' = "returned"
                /\ UNCHANGED stdout
    /\ UNCHANGED <<reader, station_stats, stderr, exit_status, ingestVars,
                   xxVars, htVars, splitVars, aggregateVars>>

\* the match of main on what read_weather_file returned: nothing more on
\* Ok, and the process ends with status 0; the error and exit(1) on Err
MainReturn ==
    /\ pc = "returned"
    /\ IF returned.val.ok
       THEN /\ exit_status' = 0
            /\ UNCHANGED stderr
       ELSE /\ stderr' = Append(stderr, ErrorLine(returned.val.err))
            /\ exit_status' = 1
    /\ pc' = "exited"
    /\ UNCHANGED <<reader, station_stats, returned, stdout, ingestVars,
                   xxVars, htVars, splitVars, aggregateVars>>

ReportNext ==
    \/ \E argc \in ArgCounts : Main(argc)
    \/ NextRecord
    \/ CheckEmpty
    \/ PrintRow
    \/ MainReturn

SpecReport == ReportInit /\ [][ReportNext]_vars

(***************************************************************************)
(* Properties of the hasher machine                                        *)
(***************************************************************************)

\* oneshot of the struct the machine runs, over everything written so far
OneshotOfWritten ==
    IF variant = 32 THEN XxHash32Oneshot(written, hasher.seed)
                    ELSE XxHash64Oneshot(written, hasher.seed)

\* C6: whatever the seed and however the input was cut into write calls
\* (empty chunks and chunks across stripe boundaries included), finish
\* returns the digest oneshot computes over the whole input.
C6_ChunkingIndependence == digest.some => digest.val = OneshotOfWritten

\* three writes, the input longer than a stripe, bytes left in the buffer
C6_Witness ==
    /\ digest.some /\ variant = 64 /\ writes = MaxWrites
    /\ Len(written) > 32 /\ hasher.buffer_len > 0

\* an XxHash32 with seed 0 that was given no byte (empty writes included)
EmptySeedZero32 == variant = 32 /\ hasher.seed = WordOf(0, 4) /\ written = <<>>
EmptySeedZero64 == variant = 64 /\ hasher.seed = WordOf(0, 8) /\ written = <<>>

\* C7: the XxHash32 digest of the empty input with seed 0 is 0x02CC5D05, and
\* it is the avalanche of seed + PRIME32_5 + 0.
C7_XxHash32EmptyVector ==
    (EmptySeedZero32 /\ digest.some) =>
        /\ digest.val = W32(2, 204, 93, 5)
        /\ digest.val = XxHash32Avalanche(
               WrappingAdd(WrappingAdd(WordOf(0, 4), PRIME32_5), WordOf(0, 4)))

C7_Witness == EmptySeedZero32 /\ digest.some

\* C8: the XxHash64 digest of the empty input with seed 0 is
\* 0xEF46DB3751D8E999, and it is the avalanche of seed + PRIME64_5 + 0.
C8_XxHash64EmptyVector ==
    (EmptySeedZero64 /\ digest.some) =>
        /\ digest.val = W64(239, 70, 219, 55, 81, 216, 233, 153)
        /\ digest.val = XxHash64Avalanche(
               WrappingAdd(WrappingAdd(WordOf(0, 8), PRIME64_5), WordOf(0, 8)))

C8_Witness == EmptySeedZero64 /\ digest.some /\ writes > 0

(***************************************************************************)
(* Properties of the table machine                                         *)
(***************************************************************************)

\* the table after the step
TableNext == [buckets |-> buckets', size |-> size', capacity |-> capacity']

\* every stored pair, and the value stored for a key (None when there is
\* none), read off the chains without hashing
Entries(t) == Flatten(t.buckets, 1)
StoredKeys(t) == {Entries(t)[i][1] : i \in 1..Len(Entries(t))}
StoredValue(t, key) ==
    LET at == {i \in 1..Len(Entries(t)) : Entries(t)[i][1] = key}
    IN  IF at = {} THEN None ELSE Some(Entries(t)[CHOOSE i \in at : TRUE][2])

\* C1: on a table created with a capacity of at least 1, no call panics, get
\* of every key returns what the reference map holds for it, and the get
\* calls made returned exactly that.
C1_GetMatchesReferenceMap ==
    capacity >= 1 =>
        /\ ~panicked
        /\ \A k \in Keys : HashTableGet(Table, k) = [ret |-> model[k], panic |-> FALSE]
        /\ call.op = "get" => ret = model[call.key]

\* a get that found an overwritten value in a table that has grown, while
\* another key is gone
C1_Witness ==
    /\ call.op = "get" /\ ret = Some(2) /\ capacity = 4
    /\ \E k \in Keys : model[k] = None

\* the contract of insert(key, value), as a step of the table
InsertContract ==
    LET key == call'.key
        prior == StoredValue(Table, key)
    IN  /\ ~panicked'
        /\ ret' = prior
        /\ StoredValue(TableNext, key) = Some(call'.value)
        /\ size' = IF prior.some THEN size ELSE size + 1

\* C2: insert on a present key returns the prior value, stores the new one
\* and leaves len() unchanged; insert on an absent key returns None and
\* increases len() by 1; a resize in the call changes none of this.
C2_InsertReturnsPrior == [][call'.op = "insert" => InsertContract]_vars

\* insert on the table built by with_capacity(0) panics
C2_Witness == call.op = "insert" /\ panicked /\ capacity = 0

\* the same contract on the tables whose capacity is at least 1
InsertContractFromCapacityOne ==
    [][(call'.op = "insert" /\ capacity >= 1) => InsertContract]_vars

\* C3: an insert that triggers resize keeps every key that was present, with
\* its value (the inserted key maps to the new value), adds no other key, and
\* the table resize returns holds as many pairs as before.
C3_ResizePreservesContents ==
    [][(call'.op = "insert" /\ LoadFactorAboveThreshold(Table)) =>
          LET resized == HashTableResize(Table).table
          IN  /\ ~panicked'
              /\ capacity' # capacity
              /\ HashTableLen(resized) = HashTableLen(Table)
              /\ \A k \in Keys : StoredValue(resized, k) = StoredValue(Table, k)
              /\ \A k \in Keys :
                    HashTableGet(TableNext, k).ret =
                        IF k = call'.key THEN Some(call'.value)
                                         ELSE StoredValue(Table, k)
              /\ StoredKeys(TableNext) = StoredKeys(Table) \cup {call'.key}]_vars

\* an insert into a full table of 4 chains has doubled it, all keys kept
C3_Witness ==
    /\ call.op = "insert" /\ capacity = 8 /\ size = 4
    /\ \A k \in StoredKeys(Table) : HashTableGet(Table, k).ret = model[k]

\* C4: len() is the number of pairs stored across the chains, is_empty() is
\* true exactly when there is none, and the counter is never below 0.
C4_LenCountsStoredPairs ==
    /\ HashTableLen(Table) = Len(Entries(Table))
    /\ HashTableIsEmpty(Table) <=> Entries(Table) = <<>>
    /\ size >= 0

\* a remove has emptied a table again
C4_Witness ==
    /\ call.op = "remove" /\ ret.some /\ HashTableIsEmpty(Table) /\ capacity = 2

\* the contract of remove(key), as a step of the table
RemoveContract ==
    LET key == call'.key
        prior == StoredValue(Table, key)
    IN  /\ ~panicked'
        /\ ret' = prior
        /\ IF prior.some
           THEN /\ size' = size - 1
                /\ \A k \in Keys :
                      StoredValue(TableNext, k) =
                          IF k = key THEN None ELSE StoredValue(Table, k)
           ELSE TableNext = Table
        /\ (call.op = "remove" /\ call.key = key /\ ret.some) => ret' = None

\* C5: remove of a present key returns its value, decrements len() and
\* leaves the key absent and every other key as it was; remove of an absent
\* key returns None and leaves buckets, size and capacity unchanged; a
\* second remove right after a successful one returns None.
C5_RemoveContract == [][call'.op = "remove" => RemoveContract]_vars

\* remove on the table built by with_capacity(0) panics
C5_Witness == call.op = "remove" /\ panicked /\ capacity = 0

\* the same contract on the tables whose capacity is at least 1
RemoveContractFromCapacityOne ==
    [][(call'.op = "remove" /\ capacity >= 1) => RemoveContract]_vars

(***************************************************************************)
(* Properties of the splitter machine                                      *)
(***************************************************************************)

\* C9: over the same buffer the two strategies return the same spans, in the
\* same order.
C9_SplittersAgree ==
    (lines_basic # NotRun /\ lines_simd # NotRun) => lines_basic = lines_simd

\* both have run over a buffer that starts with an empty line and has two
\* lines or more
C9_Witness ==
    /\ lines_basic # NotRun /\ lines_simd # NotRun
    /\ Len(data) >= 1 /\ data[1] = NEWLINE /\ Len(lines_simd) >= 2

\* data[start..end] is a maximal run of bytes other than '\n'
IsMaximalRun(bytes, start, end) ==
    /\ start < end
    /\ \A i \in start..(end - 1) : bytes[i + 1] # NEWLINE
    /\ start = 0 \/ bytes[start] = NEWLINE
    /\ end = Len(bytes) \/ bytes[end + 1] = NEWLINE

MaximalRuns(bytes) ==
    {Span(s, e) : <<s, e>> \in
        {p \in (0..Len(bytes)) \X (0..Len(bytes)) : IsMaximalRun(bytes, p[1], p[2])}}

\* lines is the maximal runs of bytes, each once, in buffer order
IsMaximalRunsInOrder(bytes, lines) ==
    /\ {lines[i] : i \in 1..Len(lines)} = MaximalRuns(bytes)
    /\ \A i \in 1..(Len(lines) - 1) : lines[i].end < lines[i + 1].start
    /\ \A i \in 1..Len(lines) :
          /\ lines[i].start < lines[i].end
          /\ \A j \in lines[i].start..(lines[i].end - 1) : bytes[j + 1] # NEWLINE
    /\ (bytes # <<>> /\ bytes[Len(bytes)] # NEWLINE) =>
          (lines # <<>> /\ lines[Len(lines)].end = Len(bytes))
    /\ (bytes = <<>> \/ bytes[Len(bytes)] = NEWLINE) =>
          \A i \in 1..Len(lines) : lines[i].end < Len(bytes)

\* C10: what a splitter returns is exactly the maximal runs of non-newline
\* bytes in buffer order: no empty span, no '\n' inside one, the final run
\* without a newline is there, and nothing follows a final '\n'.
C10_LinesAreMaximalRuns ==
    /\ lines_basic # NotRun => IsMaximalRunsInOrder(data, lines_basic)
    /\ lines_simd # NotRun => IsMaximalRunsInOrder(data, lines_simd)

\* an empty line between two lines, the last one without its newline
C10_Witness ==
    /\ lines_basic = <<Span(0, 1), Span(3, 4)>> /\ Len(data) = 4
    /\ lines_simd # NotRun

(***************************************************************************)
(* Properties of ingestion                                                 *)
(***************************************************************************)
\* what a line of the input is, read off its bytes
CountOf(byte, line) == Cardinality({i \in 1..Len(line) : line[i] = byte})
IsBlank(line) == \A i \in 1..Len(line) : IsWhitespace(line[i])
FirstSemicolon(line) ==
    CHOOSE i \in 1..Len(line) :
        line[i] = SEMICOLON /\ \A j \in 1..(i - 1) : line[j] # SEMICOLON
\* the two fields of a line with at least one ';', whitespace trimmed
StationField(line) == Trim(SubSeq(line, 1, FirstSemicolon(line) - 1))
TemperatureField(line) ==
    Trim(SubSeq(line, FirstSemicolon(line) + 1, Len(line)))
\* a decimal number: an optional sign, then digits with at most one '.'
IsDecimalNumber(text) ==
    LET body == IF text # <<>> /\ text[1] \in {43, 45} THEN Tail(text) ELSE text
    IN  /\ \A i \in 1..Len(body) : IsDigit(body[i]) \/ body[i] = 46
        /\ CountOf(46, body) <= 1
        /\ \E i \in 1..Len(body) : IsDigit(body[i])
WellFormedLine(line) ==
    /\ CountOf(SEMICOLON, line) = 1
    /\ StationField(line) # <<>>
    /\ IsDecimalNumber(TemperatureField(line))
\* a literal of f64: a decimal number or, after an optional sign and in any
\* case, "inf", "infinity" or "nan"
IsFloatLiteral(text) ==
    LET body == IF text # <<>> /\ text[1] \in {43, 45} THEN Tail(text) ELSE text
        lower == [i \in 1..Len(body) |-> ToAsciiLowercase(body[i])] \o <<>>
    IN  \/ IsDecimalNumber(text)
        \/ lower \in {<<105, 110, 102>>, <<110, 97, 110>>,
                      <<105, 110, 102, 105, 110, 105, 116, 121>>}
\* a line with a station and a literal of f64 around its one ';'
ParsableLine(line) ==
    /\ CountOf(SEMICOLON, line) = 1
    /\ StationField(line) # <<>>
    /\ IsFloatLiteral(TemperatureField(line))
\* the record a well-formed line stands for
RecordOfLine(line) ==
    WeatherRecord(StationField(line), ParseF64(TemperatureField(line)).val)
AllWellFormed == \A i \in 1..Len(file_lines) : WellFormedLine(file_lines[i])
HasRun == stage.op # "none"
\* one of the four parsers has run: WeatherCsvReader or a parse_records_*
\* (pipeline_streaming parses its lines itself)
ParserRan == HasRun /\ stage.op # "pipeline_streaming"
\* the reader that ran returns a map of stations, not a list of records
ReturnsMap == stage.op \in {"process_silent"} \cup PipelineNames

\* the station names in what the reader returned: the records of a list, or
\* the keys of the map of process_weather_file_silent
ReturnedStations ==
    IF ~outcome.result.ok THEN {}
    ELSE IF ReturnsMap THEN StoredKeys(outcome.result.val)
    ELSE {outcome.result.val[i].station : i \in 1..Len(outcome.result.val)}
\* line i is the first line of the file that is not such a line
FirstUnparsable(i) ==
    /\ i \in 1..Len(file_lines)
    /\ ~ParsableLine(file_lines[i])
    /\ \A j \in 1..(i - 1) : ParsableLine(file_lines[j])
IsInvalidFormat(result) == ~result.ok /\ result.err.variant = "InvalidFormat"
IsParseError(result) == ~result.ok /\ result.err.variant = "Parse"

\* C11: on every list of well-formed lines, parse_records_string,
\* parse_records_bytes and parse_records_unsafe all return Ok with the same
\* records: one per line, in order, with the trimmed station and the
\* temperature of the line.
C11_ParsersAgreeOnWellFormed ==
    (stage.op = "parse_records" /\ AllWellFormed) =>
        /\ outcome.result = Ok([i \in 1..Len(file_lines) |->
                                   RecordOfLine(file_lines[i])] \o <<>>)
        /\ outcome.result = parse_records_string(file_lines)
        /\ outcome.result = parse_records_bytes(file_lines)
        /\ outcome.result = parse_records_unsafe(file_lines)

\* parse_records_bytes has parsed two well-formed lines, one of them with
\* whitespace around both fields
C11_Witness ==
    /\ stage.op = "parse_records" /\ stage.parser = "bytes"
    /\ AllWellFormed /\ Len(file_lines) = 2
    /\ \E i \in 1..2 : file_lines[i][1] = 32
    /\ outcome.result.ok /\ Len(outcome.result.val) = 2

\* a line with one ';' and nothing but whitespace before it
EmptyStationLine(line) ==
    CountOf(SEMICOLON, line) = 1 /\ StationField(line) = <<>>

\* C12: in every parser variant, a line whose station field is empty after
\* trimming fails with InvalidFormat "station name cannot be empty", and no
\* returned record has an empty station name.
C12_EmptyStationRejected ==
    ParserRan =>
        /\ \A i \in 1..Len(file_lines) :
               (FirstUnparsable(i) /\ EmptyStationLine(file_lines[i])) =>
                   /\ IsInvalidFormat(outcome.result)
                   /\ outcome.result.err.format =
                          "Line {}: Weather station name cannot be empty"
        /\ <<>> \notin ReturnedStations

\* parse_records_bytes has returned a record with an empty station name for
\* the line " ;1"
C12_Witness ==
    /\ stage.op = "parse_records" /\ stage.parser = "bytes"
    /\ file_lines = << <<32, 59, 49>> >>
    /\ outcome.result = Ok(<<WeatherRecord(<<>>, Finite(1, 0))>>)

\* the same on WeatherCsvReader, parse_records_string and
\* process_weather_file_silent, which test the trimmed station
EmptyStationRejectedByStringParsers ==
    (ParserRan /\ stage.parser \notin {"bytes", "unsafe"}) =>
        /\ \A i \in 1..Len(file_lines) :
               (FirstUnparsable(i) /\ EmptyStationLine(file_lines[i])) =>
                   /\ IsInvalidFormat(outcome.result)
                   /\ outcome.result.err.format =
                          "Line {}: Weather station name cannot be empty"
        /\ <<>> \notin ReturnedStations

\* a non-blank line that does not hold exactly one ';'
WrongDelimiterCount(line) == ~IsBlank(line) /\ CountOf(SEMICOLON, line) # 1

\* C13: in every parser variant, a non-blank line without exactly one ';'
\* is rejected with an InvalidFormat error: never a Parse error, never a
\* record.
C13_DelimiterCountIsInvalidFormat ==
    ParserRan =>
        \A i \in 1..Len(file_lines) :
            (FirstUnparsable(i) /\ WrongDelimiterCount(file_lines[i])) =>
                IsInvalidFormat(outcome.result)

\* parse_records_bytes has returned a Parse error for the line "A;1;2",
\* taking "1;2" for the temperature
C13_Witness ==
    /\ stage.op = "parse_records" /\ stage.parser = "bytes"
    /\ file_lines = << <<65, 59, 49, 59, 50>> >>
    /\ IsParseError(outcome.result)
    /\ outcome.result.err.text = <<49, 59, 50>>

\* the same on WeatherCsvReader, parse_records_string and
\* process_weather_file_silent, which count the columns; and the byte
\* parsers on a line with no ';' at all
DelimiterCountInStringParsers ==
    (ParserRan /\ stage.parser \notin {"bytes", "unsafe"}) =>
        \A i \in 1..Len(file_lines) :
            (FirstUnparsable(i) /\ WrongDelimiterCount(file_lines[i])) =>
                /\ IsInvalidFormat(outcome.result)
                /\ outcome.result.err.found = CountOf(SEMICOLON, file_lines[i]) + 1
NoDelimiterInByteParsers ==
    (ParserRan /\ stage.parser \in {"bytes", "unsafe"}) =>
        \A i \in 1..Len(file_lines) :
            (/\ FirstUnparsable(i) /\ ~IsBlank(file_lines[i])
             /\ CountOf(SEMICOLON, file_lines[i]) = 0) =>
                IsInvalidFormat(outcome.result)

\* the lines of the file that are not blank, in order
RECURSIVE NonBlank(_)
NonBlank(ls) ==
    IF ls = <<>> THEN <<>>
    ELSE IF IsBlank(Head(ls)) THEN NonBlank(Tail(ls))
    ELSE <<Head(ls)>> \o NonBlank(Tail(ls))
AllBlankOrWellFormed ==
    \A i \in 1..Len(file_lines) :
        IsBlank(file_lines[i]) \/ WellFormedLine(file_lines[i])

\* C14: in every parser variant, a line that is empty after trimming (zero
\* bytes, or only whitespace) gives no record and no error, and parsing goes
\* on with the next line: a file of blank and well-formed lines yields
\* exactly the records of its well-formed lines.
C14_BlankLinesSkipped ==
    (ParserRan /\ ~ReturnsMap /\ AllBlankOrWellFormed) =>
        outcome.result = Ok([i \in 1..Len(NonBlank(file_lines)) |->
                                RecordOfLine(NonBlank(file_lines)[i])] \o <<>>)

\* parse_records_bytes has returned "No semicolon delimiter found" for a
\* line that holds one space
C14_Witness ==
    /\ stage.op = "parse_records" /\ stage.parser = "bytes"
    /\ file_lines = << <<32>>, <<65, 59, 49>> >>
    /\ IsInvalidFormat(outcome.result)
    /\ outcome.result.err.format = "Line {}: No semicolon delimiter found"
    /\ outcome.result.err.line = 1

\* the same on WeatherCsvReader and parse_records_string, which trim the
\* line before they test it; and the byte parsers on lines of zero bytes
BlankLinesSkippedByStringParsers ==
    (/\ ParserRan /\ ~ReturnsMap
     /\ stage.parser \notin {"bytes", "unsafe"} /\ AllBlankOrWellFormed) =>
        outcome.result = Ok([i \in 1..Len(NonBlank(file_lines)) |->
                                RecordOfLine(NonBlank(file_lines)[i])] \o <<>>)
EmptyLinesSkippedByByteParsers ==
    (/\ ParserRan /\ ~ReturnsMap /\ stage.parser \in {"bytes", "unsafe"}
     /\ \A i \in 1..Len(file_lines) :
            file_lines[i] = <<>> \/ WellFormedLine(file_lines[i])) =>
        outcome.result = Ok([i \in 1..Len(NonBlank(file_lines)) |->
                                RecordOfLine(NonBlank(file_lines)[i])] \o <<>>)

\* line i is the first malformed line of the file: neither blank nor a
\* station and a number around one ';'
FirstMalformed(i) ==
    /\ i \in 1..Len(file_lines)
    /\ ~IsBlank(file_lines[i]) /\ ~ParsableLine(file_lines[i])
    /\ \A j \in 1..(i - 1) :
           IsBlank(file_lines[j]) \/ ParsableLine(file_lines[j])
ReadsTheFile ==
    stage.op \in {"read_all", "split_then_parse", "process_silent"}
                 \cup (PipelineNames \ {"pipeline_streaming"})

\* C15: whenever ingestion of a file fails on a malformed line, the line
\* number in the error is the 1-based position of that line in the file,
\* blank lines before it counted, for WeatherCsvReader and for
\* split_into_lines_* followed by parse_records_*.
C15_ErrorLineIsFilePosition ==
    (ReadsTheFile /\ ~outcome.result.ok) =>
        \A i \in 1..Len(file_lines) :
            FirstMalformed(i) => outcome.result.err.line = i

\* split_into_lines_simd then parse_records_string on "\nA;x": the error
\* for line 2 of the file says line 1
C15_Witness ==
    /\ stage = [op |-> "split_then_parse", splitter |-> "simd",
                parser |-> "string"]
    /\ file_lines = << <<>>, <<65, 59, 120>> >>
    /\ IsParseError(outcome.result)
    /\ outcome.result.err.line = 1

\* WeatherCsvReader counts every line it reads
ErrorLineIsFilePositionInReader ==
    (stage.op \in {"read_all", "process_silent"} /\ ~outcome.result.ok) =>
        \A i \in 1..Len(file_lines) :
            FirstMalformed(i) => outcome.result.err.line = i
\* behind a splitter, parse_records_string counts the lines of one byte or
\* more
ErrorLineCountsNonEmptyLines ==
    (/\ stage.op = "split_then_parse" /\ stage.parser = "string"
     /\ ~outcome.result.ok) =>
        \A i \in 1..Len(file_lines) :
            FirstMalformed(i) =>
                outcome.result.err.line =
                    Cardinality({j \in 1..i : file_lines[j] # <<>>})

\* the number of lines before line i that stand for a record
ParsableBefore(i) ==
    Cardinality({j \in 1..(i - 1) : ParsableLine(file_lines[j])})
FailsFastAt(i) ==
    /\ ~outcome.result.ok
    /\ outcome.result.err.line = i
    /\ outcome.scanned = i
    /\ stage.op = "process_silent" => outcome.folded = ParsableBefore(i)

\* C16: if any line of the input is malformed, read_all, parse_records_* and
\* process_weather_file_silent return Err and neither records nor a map; the
\* error is the one of the first malformed line, and no line after it is
\* parsed or folded.
C16_FailFast ==
    stage.op \in {"read_all", "parse_records", "process_silent"} =>
        \A i \in 1..Len(file_lines) : FirstMalformed(i) => FailsFastAt(i)

\* parse_records_unsafe has returned two records for a list whose first
\* line, " ;1", has no station
C16_Witness ==
    /\ stage.op = "parse_records" /\ stage.parser = "unsafe"
    /\ file_lines = << <<32, 59, 49>>, <<66, 59, 51>> >>
    /\ outcome.result.ok /\ Len(outcome.result.val) = 2

\* the same on read_all, parse_records_string and
\* process_weather_file_silent
FailFastInStringParsers ==
    (/\ stage.op \in {"read_all", "parse_records", "process_silent"}
     /\ stage.parser \notin {"bytes", "unsafe"}) =>
        \A i \in 1..Len(file_lines) : FirstMalformed(i) => FailsFastAt(i)
\* the byte parsers stop at the first line they reject
ByteParsersStopAtFirstError ==
    (stage.op = "parse_records" /\ ~outcome.result.ok) =>
        /\ outcome.result.err.line = outcome.scanned
        /\ \A j \in 1..(outcome.scanned - 1) :
               ParseRecordLine(stage.parser, file_lines[j], j - 1).ok

(***************************************************************************)
(* Properties of aggregation                                               *)
(***************************************************************************)
\* a HashTable as the map from its keys to their values
TableAsMap(t) == [s \in StoredKeys(t) |-> StoredValue(t, s).val]
\* the maps the aggregators that ran returned
AggregatedMaps ==
    (IF stats_std = NotAggregated THEN {} ELSE {TableAsMap(stats_std)})
    \cup (IF stats_fx = NotAggregated THEN {} ELSE {stats_fx})
    \cup (IF stats_streaming = NotAggregated THEN {}
          ELSE {TableAsMap(stats_streaming)})
\* the temperatures of the records of station s, in input order
RECURSIVE TemperaturesOf(_, _)
TemperaturesOf(s, rs) ==
    IF rs = <<>> THEN <<>>
    ELSE (IF Head(rs).station = s THEN <<Head(rs).temperature>> ELSE <<>>)
         \o TemperaturesOf(s, Tail(rs))
\* t1 + t2 + ... + tn, from the left
RECURSIVE SumInOrder(_)
SumInOrder(ts) ==
    IF Len(ts) = 1 THEN ts[1]
    ELSE FAdd(SumInOrder(SubSeq(ts, 1, Len(ts) - 1)), ts[Len(ts)])
PerStationStats(map) ==
    \A s \in DOMAIN map :
        LET ts == TemperaturesOf(s, records)
            stats == map[s]
        IN  /\ stats.station_name = s
            /\ stats.count = Len(ts) /\ stats.count >= 1
            /\ \E i \in 1..Len(ts) : stats.min_temperature = ts[i]
            /\ \E i \in 1..Len(ts) : stats.max_temperature = ts[i]
            /\ \A i \in 1..Len(ts) :
                   /\ FLessEq(stats.min_temperature, ts[i])
                   /\ FLessEq(ts[i], stats.max_temperature)
            /\ stats.sum_temperature = SumInOrder(ts)
            /\ AvgTemperature(stats) = FDivCount(SumInOrder(ts), Len(ts))

\* C17: after folding any record sequence, for every station of the map,
\* count is the number of its records and at least 1, min_temperature and
\* max_temperature are the least and the greatest of their temperatures, so
\* that min <= every observed value <= max, sum_temperature is their sum in
\* input order, and avg is sum / count.
C17_PerStationAggregation == \A map \in AggregatedMaps : PerStationStats(map)

\* aggregate_records_std has folded a NaN and then 10 for one station:
\* min = max = 10, and neither bounds the NaN that was observed
C17_Witness ==
    /\ records = <<WeatherRecord(<<65>>, NaN), WeatherRecord(<<65>>, Finite(10, 0))>>
    /\ stats_std # NotAggregated
    /\ LET stats == TableAsMap(stats_std)[<<65>>]
       IN  /\ stats.count = 2
           /\ stats.min_temperature = Finite(10, 0)
           /\ stats.max_temperature = Finite(10, 0)
           /\ stats.sum_temperature = NaN

\* the same when no temperature is NaN
NoNaN == \A i \in 1..Len(records) : records[i].temperature # NaN
PerStationAggregationWithoutNaN ==
    NoNaN => \A map \in AggregatedMaps : PerStationStats(map)

\* C18: on every record sequence, aggregate_records_std,
\* aggregate_records_fx and aggregate_records_streaming return maps with the
\* same keys and, for every key, the same count, min, max and sum.
C18_AggregatorsAgree ==
    /\ (stats_std # NotAggregated /\ stats_fx # NotAggregated) =>
           TableAsMap(stats_std) = stats_fx
    /\ (stats_streaming # NotAggregated /\ stats_fx # NotAggregated) =>
           TableAsMap(stats_streaming) = stats_fx
    /\ (stats_std # NotAggregated /\ stats_streaming # NotAggregated) =>
           TableAsMap(stats_std) = TableAsMap(stats_streaming)

\* all three have folded three records, two of them of one station
C18_Witness ==
    /\ stats_std # NotAggregated /\ stats_fx # NotAggregated
    /\ stats_streaming # NotAggregated
    /\ Len(records) = 3
    /\ DOMAIN stats_fx = Stations
    /\ \E s \in Stations : stats_fx[s].count = 2

\* the records of the lines of the file that are not blank
FileRecords ==
    [i \in 1..Len(NonBlank(file_lines)) |-> RecordOfLine(NonBlank(file_lines)[i])]
        \o <<>>
RECURSIVE SumOfCounts(_)
SumOfCounts(entries) ==
    IF entries = <<>> THEN 0
    ELSE Head(entries)[2].count + SumOfCounts(Tail(entries))

\* C19: the map returned has exactly one entry per distinct station of the
\* folded records, its counts sum to the number of folded records, and an
\* input with no data line yields Ok with an empty map, not an error.
C19_KeySetAndCounts ==
    stage.op \in {"process_silent", "pipeline_mmap_string"} =>
        /\ outcome.result.ok =>
               LET table == outcome.result.val
               IN  /\ StoredKeys(table) =
                          {FileRecords[i].station : i \in 1..Len(FileRecords)}
                   /\ Len(Entries(table)) = Cardinality(StoredKeys(table))
                   /\ HashTableLen(table) = Cardinality(StoredKeys(table))
                   /\ outcome.folded = Len(FileRecords)
                   /\ SumOfCounts(Entries(table)) = outcome.folded
        /\ (\A i \in 1..Len(file_lines) : IsBlank(file_lines[i])) =>
               /\ outcome.result.ok
               /\ Entries(outcome.result.val) = <<>>
               /\ HashTableIsEmpty(outcome.result.val)

\* process_weather_file_silent has returned a map of one station with
\* count 2 for a file of two lines of that station
C19_Witness ==
    /\ stage.op = "process_silent" /\ outcome.result.ok
    /\ Len(FileRecords) = 2
    /\ StoredKeys(outcome.result.val) = {<<66>>}
    /\ StoredValue(outcome.result.val, <<66>>).val.count = 2

\* pipeline_mmap_string has returned Ok with an empty map for a file of
\* blank lines only
EmptyInputWitness ==
    /\ stage.op = "pipeline_mmap_string" /\ Len(file_lines) = 2
    /\ \A i \in 1..Len(file_lines) : IsBlank(file_lines[i])
    /\ outcome.result.ok /\ HashTableIsEmpty(outcome.result.val)

\* the same of the three aggregators on every record sequence
RECURSIVE SumOfMapCounts(_, _)
SumOfMapCounts(map, keys) ==
    IF keys = {} THEN 0
    ELSE LET s == CHOOSE k \in keys : TRUE
         IN  map[s].count + SumOfMapCounts(map, keys \ {s})
KeySetAndCountsOfAggregators ==
    \A map \in AggregatedMaps :
        /\ DOMAIN map = {records[i].station : i \in 1..Len(records)}
        /\ SumOfMapCounts(map, DOMAIN map) = Len(records)

\* a line with one ';', a station, and a temperature field that is no
\* literal of f64
InvalidTemperatureLine(line) ==
    /\ CountOf(SEMICOLON, line) = 1
    /\ StationField(line) # <<>>
    /\ ~IsFloatLiteral(TemperatureField(line))

\* C20: in every parser variant, a line with exactly one ';', a non-empty
\* station and a temperature field that is not a valid number fails with a
\* Parse error whose message holds the trimmed temperature text, and no
\* record is produced for it.
C20_InvalidTemperatureIsParseError ==
    ParserRan =>
        \A i \in 1..Len(file_lines) :
            (FirstUnparsable(i) /\ InvalidTemperatureLine(file_lines[i])) =>
                /\ IsParseError(outcome.result)
                /\ outcome.result.err.format =
                       "Line {}: Cannot parse temperature '{}' as a number"
                /\ outcome.result.err.text = TemperatureField(file_lines[i])
                /\ outcome.result.err.line = i

\* parse_records_unsafe has returned a Parse error carrying "x" for the
\* second line, "A; x "
C20_Witness ==
    /\ stage.op = "parse_records" /\ stage.parser = "unsafe"
    /\ Len(file_lines) = 2 /\ file_lines[2] = <<65, 59, 32, 120, 32>>
    /\ IsParseError(outcome.result)
    /\ outcome.result.err.text = <<120>>
    /\ outcome.result.err.line = 2

\* the orderings of a record sequence
IndexOrders(n) ==
    {p \in [1..n -> 1..n] : \A i, j \in 1..n : p[i] = p[j] => i = j}
Orderings(rs) ==
    {[i \in 1..Len(rs) |-> rs[p[i]]] \o <<>> : p \in IndexOrders(Len(rs))}

\* C21: for every record multiset and any two orderings of it, the
\* aggregation yields the same key set and, per station, the same count,
\* min_temperature and max_temperature and, temperatures being exact
\* numbers, the same sum.
C21_OrderIndependence ==
    stats_std # NotAggregated =>
        \A other \in Orderings(records) :
            LET here == TableAsMap(stats_std)
                there == TableAsMap(aggregate_records_std(other))
            IN  /\ DOMAIN here = DOMAIN there
                /\ \A s \in DOMAIN here :
                       /\ here[s].count = there[s].count
                       /\ here[s].min_temperature = there[s].min_temperature
                       /\ here[s].max_temperature = there[s].max_temperature
                       /\ here[s].sum_temperature = there[s].sum_temperature

\* aggregate_records_std has folded 30, -5.5 and 10 of one station, which
\* are in no order
C21_Witness ==
    /\ stats_std # NotAggregated
    /\ records = <<WeatherRecord(<<65>>, Finite(30, 0)),
                   WeatherRecord(<<65>>, Finite(-55, 1)),
                   WeatherRecord(<<65>>, Finite(10, 0))>>
    /\ TableAsMap(stats_std)[<<65>>].min_temperature = Finite(-55, 1)
    /\ TableAsMap(stats_std)[<<65>>].max_temperature = Finite(30, 0)
    /\ TableAsMap(stats_std)[<<65>>].sum_temperature = Finite(345, 1)

\* the map a file of well-formed lines stands for
ExpectedStats == TableAsMap(aggregate_records_std(FileRecords))

PipelinesAgreeWithEmptyLines ==
    (/\ stage.op \in PipelineNames
     /\ \A i \in 1..Len(file_lines) :
            file_lines[i] = <<>> \/ WellFormedLine(file_lines[i])) =>
        /\ outcome.result.ok
        /\ TableAsMap(outcome.result.val) = ExpectedStats


(***************************************************************************)
(* Properties of the program                                               *)
(***************************************************************************)
\* a line that is neither blank nor a station and a literal of f64
BadLine(line) == ~IsBlank(line) /\ ~ParsableLine(line)
HasBadLine == \E i \in 1..Len(file_lines) : BadLine(file_lines[i])
\* the reader is at the end of the file and the table holds the
\* aggregation of the records of all its lines
AllLinesFolded ==
    /\ ~HasBadLine
    /\ reader.pos = Len(FileBytes)
    /\ TableAsMap(station_stats) = ExpectedStats
ReturnedOk == returned.some /\ returned.val.ok
ReturnedErr == returned.some /\ ~returned.val.ok

\* C23: read_weather_file writes the header and the rows to standard output
\* only after every line of the input has been parsed and folded and the map
\* is not empty; when a line fails nothing is written to standard output and
\* the process ends with status 1; when the fold ends with an empty map
\* nothing is written to standard output, the result is Ok and the process
\* ends with status 0.
C23_ReportAfterFold ==
    /\ stdout # <<>> =>
          /\ AllLinesFolded
          /\ StoredKeys(station_stats) # {}
          /\ stdout[1] = HeaderLine
    /\ HasBadLine \/ ReturnedErr =>
          /\ stdout = <<>>
          /\ pc = "exited" => exit_status = 1
    /\ pc \in {"returned", "exited"} /\ ~ReturnedErr /\ returned.some
          /\ StoredKeys(station_stats) = {} =>
          /\ stdout = <<>>
          /\ ReturnedOk
          /\ pc = "exited" => exit_status = 0

\* a file of two stations has been reported, header and one row each, after
\* both lines were folded
C23_Witness ==
    /\ pc = "exited" /\ exit_status = 0
    /\ Len(file_lines) = 2 /\ Len(stdout) = 3
    /\ stdout[1] = HeaderLine

\* the other two cases happen: a bad line after a good one, and a file of
\* blank lines only
ErrorExitWitness ==
    /\ pc = "exited" /\ exit_status = 1 /\ ReturnedErr
    /\ Len(file_lines) = 2 /\ ~BadLine(file_lines[1]) /\ ~IsBlank(file_lines[1])
EmptyReportWitness ==
    /\ pc = "exited" /\ exit_status = 0 /\ ReturnedOk
    /\ Len(file_lines) = 2 /\ stderr = <<NoRecordsLine>>

\* what the program has printed when it ends: the usage, or the error of the
\* first bad line, or the message of the empty map, or the header and one
\* row for each station in the order of iter()
EndOfProgram ==
    pc = "exited" =>
        IF ~returned.some
        THEN stdout = <<>> /\ stderr = UsageLines /\ exit_status = 1
        ELSE IF HasBadLine
        THEN /\ stdout = <<>> /\ exit_status = 1
             /\ \E i \in 1..Len(file_lines) :
                    /\ FirstMalformed(i)
                    /\ stderr = <<ErrorLine(ParseLine(file_lines[i], i).err)>>
        ELSE IF \A i \in 1..Len(file_lines) : IsBlank(file_lines[i])
        THEN stdout = <<>> /\ stderr = <<NoRecordsLine>> /\ exit_status = 0
        ELSE /\ exit_status = 0 /\ stderr = <<>>
             /\ Len(stdout) = 1 + HashTableLen(station_stats)
             /\ stdout[1] = HeaderLine
             /\ \A i \in 1..HashTableLen(station_stats) :
                    stdout[i + 1] = RowLine(HashTableIter(station_stats)[i][1],
                                            HashTableIter(station_stats)[i][2])

(***************************************************************************)
(* Properties of the table, continued                                      *)
(***************************************************************************)
\* size / capacity > 0.75, in integers; 0 / 0 is not above anything
AboveThreeQuarters == capacity # 0 /\ 4 * size > 3 * capacity
\* n * 2^k for one of the initial capacities n
IsInitialTimesPowerOfTwo(c) ==
    \E n \in InitialCapacities, k \in 0..NumKeys : c = n * Pow2(k)

\* C24: an insert doubles the capacity when size / capacity > 0.75 held
\* before the call and leaves it alone otherwise, whether the key is new or
\* not (a nested resize in the rehash would make it four times as large);
\* get, contains_key and remove leave it alone; the capacity is always the
\* initial capacity times a power of two and never gets smaller.
C24_CapacityEvolution ==
    /\ [][/\ call'.op = "insert" =>
                 capacity' = IF AboveThreeQuarters THEN 2 * capacity ELSE capacity
          /\ call'.op \in {"get", "contains_key", "remove"} =>
                 capacity' = capacity
          /\ capacity' >= capacity]_vars
    /\ [](IsInitialTimesPowerOfTwo(capacity) /\ Len(buckets) = capacity)

\* a table that grew from 4 chains to 8: it held NumKeys pairs in 4 chains,
\* so the insert that made it grow was of a key it had
C24_Witness ==
    /\ capacity = 8 /\ size = 4 /\ call.op = "insert" /\ ret = Some(1)

(***************************************************************************)
(* Properties of the hashers, continued                                    *)
(***************************************************************************)
\* C25: finish leaves every field of the hasher as it was; a finish that
\* follows a finish returns the same digest; and a finish after write(a),
\* finish(), write(b) returns the digest of a followed by b.
C25_FinishIsReadOnly ==
    /\ [][finished'.recent = finished.recent + 1 =>
              /\ hasher' = hasher
              /\ finished.recent > 0 => digest' = digest]_vars
    /\ [](digest.some /\ finished.earlier >= 0 => digest.val = OneshotOfWritten)

\* write(a); finish(); write(b); finish() has happened, a and b not empty
\* and the second finish with stripes behind it
C25_Witness ==
    /\ digest.some /\ finished.recent > 0
    /\ 0 < finished.earlier /\ finished.earlier < Len(written)
    /\ Len(written) > 32

\* two finish calls, one after the other, have happened on a hasher that
\* holds bytes
ConsecutiveFinishWitness ==
    /\ digest.some /\ finished.recent = 2 /\ Len(written) > 0

\* C26: no key occurs in two pairs of the table, in one chain or in two,
\* after any sequence of calls, resizes included.
C26_KeysAreUnique ==
    \A i, j \in 1..Len(Entries(Table)) :
        i # j => Entries(Table)[i][1] # Entries(Table)[j][1]

\* a key that was stored has been inserted again, in a table that has grown
\* and holds other keys
C26_Witness ==
    /\ call.op = "insert" /\ ret = Some(1) /\ model[call.key] = Some(2)
    /\ capacity = 4 /\ size = 3

\* the number of pairs in the chains before chain b
RECURSIVE PairsBefore(_)
PairsBefore(b) == IF b = 1 THEN 0 ELSE PairsBefore(b - 1) + Len(buckets[b - 1])

\* C27: iter() yields len() items; pair c of chain b is the item at the
\* place after all pairs of the chains before b and the pairs before it in
\* its chain, so every stored pair is yielded once, chain after chain; the
\* items are the pairs of the reference map, each key once; keys() and
\* values() yield the components of the same items in the same order.
C27_IterationOrder ==
    LET items == HashTableIter(Table)
    IN  /\ Len(items) = HashTableLen(Table)
        /\ \A b \in 1..Len(buckets) : \A c \in 1..Len(buckets[b]) :
               items[PairsBefore(b) + c] = buckets[b][c]
        /\ \A k \in Keys :
               Cardinality({i \in 1..Len(items) : items[i][1] = k}) =
                   IF model[k].some THEN 1 ELSE 0
        /\ \A i \in 1..Len(items) : model[items[i][1]] = Some(items[i][2])
        /\ HashTableKeys(Table) = [i \in 1..Len(items) |-> items[i][1]]
        /\ HashTableValues(Table) = [i \in 1..Len(items) |-> items[i][2]]

\* a table with two pairs in one chain and a pair in a chain before it
C27_Witness ==
    \E b \in 1..Len(buckets) :
        /\ Len(buckets[b]) >= 2
        /\ \E a \in 1..(b - 1) : buckets[a] # <<>>

\* C28: there are as many chains as the capacity, every stored pair is in
\* the chain its key hashes to, and get finds every stored key there.
C28_BucketPlacement ==
    /\ Len(buckets) = capacity
    /\ \A b \in 1..Len(buckets) : \A c \in 1..Len(buckets[b]) :
           /\ HashTableHash(Table, buckets[b][c][1]).index = b - 1
           /\ HashTableGet(Table, buckets[b][c][1]).ret = Some(buckets[b][c][2])

\* a table that has grown twice holds pairs in three chains, one of them
\* beyond the chains it had before
C28_Witness ==
    /\ capacity = 8 /\ size = 4
    /\ Cardinality({b \in 1..Len(buckets) : buckets[b] # <<>>}) >= 3
    /\ \E b \in 5..8 : buckets[b] # <<>>

\* the stripe of the hasher, and the hasher after process_stripe on the
\* first n stripes of the bytes written
StripeSize == IF variant = 32 THEN 16 ELSE 32
RECURSIVE AfterStripes(_)
AfterStripes(n) ==
    IF n = 0
    THEN IF variant = 32 THEN XxHash32New(hasher.seed) ELSE XxHash64New(hasher.seed)
    ELSE LET stripe == SubSeq(written, StripeSize * (n - 1) + 1, StripeSize * n)
         IN  IF variant = 32 THEN XxHash32ProcessStripe(AfterStripes(n - 1), stripe)
                             ELSE XxHash64ProcessStripe(AfterStripes(n - 1), stripe)

\* C29: after any sequence of writes, total_len is the number of bytes
\* written, buffer_len = total_len mod S (and below S), the accumulators are
\* those of process_stripe on the first total_len div S blocks of S bytes of
\* the input, in order, the buffer starts with the last total_len mod S bytes
\* of the input, and finish takes the accumulator branch (total_len >= S)
\* exactly when a stripe has been processed.
C29_BufferingInvariant ==
    LET stripes == Len(written) \div StripeSize
        rest == Len(written) % StripeSize
        expected == AfterStripes(stripes)
    IN  /\ hasher.total_len = Len(written)
        /\ hasher.buffer_len = hasher.total_len % StripeSize
        /\ hasher.buffer_len < StripeSize
        /\ Len(hasher.buffer) = StripeSize
        /\ <<hasher.acc1, hasher.acc2, hasher.acc3, hasher.acc4>> =
               <<expected.acc1, expected.acc2, expected.acc3, expected.acc4>>
        /\ SubSeq(hasher.buffer, 1, hasher.buffer_len) =
               SubSeq(written, Len(written) - rest + 1, Len(written))
        /\ (hasher.total_len >= StripeSize) <=> (stripes >= 1)

\* an XxHash32 after three writes of 33 bytes in all: two stripes processed,
\* one byte in the buffer
C29_Witness ==
    /\ variant = 32 /\ writes = MaxWrites /\ Len(written) = 15 + 17 + 1
    /\ hasher.buffer_len = 1

\* C30: on a table created by with_capacity(n) for any n >= 0, insert, get,
\* contains_key and remove complete without panicking.
C30_NoPanicForAnyCapacity == ~panicked

\* contains_key on the table built by with_capacity(0) panics
C30_Witness == call.op = "contains_key" /\ panicked /\ capacity = 0

\* on the table built by with_capacity(0) the first call panics, whichever
\* it is, and no other table ever panics
FirstCallPanicsOnCapacityZero == [][capacity = 0 => panicked']_vars
PanicsOnlyOnCapacityZero == panicked => capacity = 0 /\ buckets = <<>>
====
